---- MODULE Spec2Model ----
(***************************************************************************)
(* Query-side core of the precise code-intelligence API server:            *)
(*   - the dump-visibility queries over the commit graph (db package),     *)
(*   - the cursor-driven four-phase reference pager,                       *)
(*   - the definitions resolver and its use as hover fallback,             *)
(*   - the cursor wire encoding.                                           *)
(* Strings that the code inspects character by character (roots, paths,    *)
(* LIKE patterns) are sequences of one-character strings.                  *)
(***************************************************************************)
EXTENDS Integers, Sequences, FiniteSets, TLC

VARIABLES
    visIn,      \* visibility engine: the lsif_commits and lsif_dumps tables
    visOut,     \* visibility engine: the last query and its result
    codecIn,    \* cursor codec: the cursor handed to encodeCursor
    codecOut,   \* cursor codec: the encoded string and the decoded cursor
    hoverIn,    \* hover: the store tables and bundle contents
    hoverOut,   \* hover: the last getHover call, its result and the calls it made
    pagerIn,    \* pager: store tables, bundle contents and the reference query
    pagerOut,   \* pager: the cursor to resume from and the pages returned so far
    resolveIn,  \* location resolvers: the dumps and the bundle locations handed in
    resolveOut, \* location resolvers: the resolver applied and what it returned
    driverIn,  \* one reference request: store, revision, limit, client cursor
    driverOut, \* what the driver returned for it
    dbCacheIn,  \* DatabaseCache: revision and size
    dbCache, \* DatabaseCache: lru list, entries, goroutines
    simpleIn,  \* simpleCache: size
    simpleCache, \* simpleCache: cacheMu, lru list, goroutines, factory calls
    remoteIn,  \* remote phases: store, bundles, limits and the cursor handed in
    remoteOut, \* remote phases: the handler invocations of the cursor chain
    gatherIn,  \* gatherPackageReferences: offset, limit, total count and the pager
    gatherOut, \* gatherPackageReferences: what it returned
    storeIn,  \* metadata store machine: commit graph and tip commits
    storeDb  \* metadata store machine: lsif_uploads and the last call

visVars == <<visIn, visOut>>
codecVars == <<codecIn, codecOut>>
hoverVars == <<hoverIn, hoverOut>>
pagerVars == <<pagerIn, pagerOut>>
resolveVars == <<resolveIn, resolveOut>>
driverVars == <<driverIn, driverOut>>
dbCacheVars == <<dbCacheIn, dbCache>>
simpleVars == <<simpleIn, simpleCache>>
remoteVars == <<remoteIn, remoteOut>>
gatherVars == <<gatherIn, gatherOut>>
storeVars == <<storeIn, storeDb>>
vars == <<visIn, visOut, codecIn, codecOut, hoverIn, hoverOut, pagerIn, pagerOut, resolveIn, resolveOut, driverIn, driverOut, dbCacheIn, dbCache, simpleIn, simpleCache, remoteIn, remoteOut, gatherIn, gatherOut, storeIn, storeDb>>

(***************************************************************************)
(* Generic helpers                                                         *)
(***************************************************************************)

Min(a, b) == IF a < b THEN a ELSE b

Elems(s) == { s[i] : i \in DOMAIN s }

\* All enumerations of a finite set as a sequence without repetition.
Perms(S) ==
    { p \in [1..Cardinality(S) -> S] : \A i, j \in 1..Cardinality(S) : p[i] = p[j] => i = j }

\* strings.HasPrefix
HasPrefix(s, prefix) ==
    Len(prefix) <= Len(s) /\ SubSeq(s, 1, Len(prefix)) = prefix

\* strings.TrimPrefix
TrimPrefix(s, prefix) ==
    IF HasPrefix(s, prefix) THEN SubSeq(s, Len(prefix) + 1, Len(s)) ELSE s

\* pathRelativeToRoot(root, path)
pathRelativeToRoot(root, path) ==
    IF HasPrefix(path, root) THEN TrimPrefix(path, root) ELSE path

(***************************************************************************)
(* SQL LIKE as the visibility queries use it: `x LIKE (root || '%')`.      *)
(* In the pattern, % matches any run of characters, _ any one character,   *)
(* and a backslash makes the next pattern character literal.               *)
(***************************************************************************)
RECURSIVE Like(_, _)
Like(s, p) ==
    IF p = <<>> THEN s = <<>>
    ELSE IF Head(p) = "%" THEN
        Like(s, Tail(p)) \/ (s # <<>> /\ Like(Tail(s), p))
    ELSE IF Head(p) = "\\" THEN
        /\ Len(p) >= 2
        /\ s # <<>>
        /\ Head(s) = p[2]
        /\ Like(Tail(s), Tail(Tail(p)))
    ELSE IF Head(p) = "_" THEN
        s # <<>> /\ Like(Tail(s), Tail(p))
    ELSE
        s # <<>> /\ Head(s) = Head(p) /\ Like(Tail(s), Tail(p))

\* x LIKE (root || '%')
LikeRootPrefix(x, root) == Like(x, root \o <<"%">>)

(***************************************************************************)
(* Visibility engine: tables                                               *)
(***************************************************************************)

NoCommit == "none"
Commits == {"c1", "c2", "c3"}

\* lsif_commits rows (id, commit, parent_commit, repository_id); a merge
\* commit has one row per parent, a root commit a row without parent.
CommitRow(i, c, p, r) == [id |-> i, commit |-> c, parent_commit |-> p, repository_id |-> r]

ForeignCommits == { CommitRow(9, "c1", NoCommit, 2) }

CommitTables ==
    { { CommitRow(1, "c1", NoCommit, 1), CommitRow(2, "c2", "c1", 1),
        CommitRow(3, "c3", "c2", 1) } \cup ForeignCommits,
      { CommitRow(1, "c1", NoCommit, 1), CommitRow(2, "c2", NoCommit, 1),
        CommitRow(3, "c3", "c1", 1), CommitRow(4, "c3", "c2", 1) } \cup ForeignCommits,
      { CommitRow(1, "c1", NoCommit, 1), CommitRow(2, "c2", "c1", 1),
        CommitRow(3, "c3", "c1", 1) } \cup ForeignCommits }

Roots ==
    { <<>>, <<"a", "/">>, <<"a", "/", "s", "/">>, <<"a", "_", "/">>, <<"a", "\\", "/">> }

Files ==
    { <<"a", "/", "s", "/", "f">>, <<"a", "b", "/", "f">>, <<"a", "\\", "/", "f">> }

Indexers == {"Z", "Y"}

\* A row of lsif_dumps / lsif_uploads (the columns the queries read).
DumpRow(i, r, c, root, ix) ==
    [ID |-> i, RepositoryID |-> r, Commit |-> c, Root |-> root, Indexer |-> ix,
     State |-> "completed"]

\* Two dumps of repository 1 anywhere in its graph, and a dump of repository 2
\* on a commit sha both repositories share.
DumpTables ==
    { { DumpRow(1, 1, c1, r1, "Z"), DumpRow(2, 1, c2, r2, ix), DumpRow(3, 2, "c1", <<>>, "Z") } :
        c1 \in Commits, r1 \in Roots \ {<<>>, <<"a", "/", "s", "/">>},
        c2 \in Commits, r2 \in Roots, ix \in Indexers }

\* Names of the commits of a long history.
Digit == <<"0", "1", "2", "3", "4", "5", "6", "7", "8", "9">>

CommitName(i) ==
    "k" \o Digit[(i \div 100) + 1] \o Digit[((i \div 10) % 10) + 1] \o Digit[(i % 10) + 1]

\* A linear history longer than the traversal limit: c3 -> c2 -> c1 -> k001
\* -> ... -> k100, the last one a root commit.
DeepCommits ==
    { CommitRow(1, "c1", CommitName(1), 1), CommitRow(2, "c2", "c1", 1),
      CommitRow(3, "c3", "c2", 1) }
    \cup { CommitRow(3 + i, CommitName(i), CommitName(i + 1), 1) : i \in 1..99 }
    \cup { CommitRow(103, CommitName(100), NoCommit, 1) }
    \cup ForeignCommits

\* A commit relation with a cycle: c1 -> c3 -> c2 -> c1.
CyclicCommits ==
    { CommitRow(1, "c1", "c3", 1), CommitRow(2, "c2", "c1", 1),
      CommitRow(3, "c3", "c2", 1) } \cup ForeignCommits

\* Dumps of the long history: one near the start commit, one deep in the
\* history on either side of the hundredth lineage row.
DeepDumpTables ==
    { { DumpRow(1, 1, "c3", <<"a", "/">>, "Z"), DumpRow(2, 1, CommitName(i), <<"a", "/">>, ix),
        DumpRow(3, 2, "c1", <<>>, "Z") } :
        i \in {96, 97}, ix \in Indexers }

\* Dumps of the cyclic relation.
CyclicDumpTables ==
    { { DumpRow(1, 1, "c1", <<"a", "/">>, "Z"), DumpRow(2, 1, c2, <<"a", "/">>, ix),
        DumpRow(3, 2, "c1", <<>>, "Z") } :
        c2 \in Commits, ix \in Indexers }

(***************************************************************************)
(* Visibility engine: the CTEs                                             *)
(***************************************************************************)

MaxTraversalLimit == 100

LineageRow(c, dir) ==
    [id |-> c.id, commit |-> c.commit, parent_commit |-> c.parent_commit,
     repository_id |-> c.repository_id, direction |-> dir]

\* The non-recursive term of bidirectionalLineage.
LineageSeed(commits, repo, commit) ==
    { LineageRow(c, dir) : c \in { x \in commits : x.repository_id = repo /\ x.commit = commit },
                           dir \in {"A", "D"} }

\* The recursive term with the direction of the working rows left out of the
\* join conditions.
LineageStep_undirected(commits, working) ==
    { LineageRow(c, dir) :
        c \in { x \in commits : \E l \in working :
                    /\ x.repository_id = l.repository_id
                    /\ (x.commit = l.parent_commit \/ x.parent_commit = l.commit) },
        dir \in {"A", "D"} }

\* The recursive term, evaluated on the rows of the previous iteration.
LineageStep(commits, working) ==
    { LineageRow(c, "A") :
        c \in { x \in commits : \E l \in working :
                    /\ l.direction = "A"
                    /\ x.repository_id = l.repository_id
                    /\ x.commit = l.parent_commit } }
    \cup
    { LineageRow(c, "D") :
        c \in { x \in commits : \E l \in working :
                    /\ l.direction = "D"
                    /\ x.repository_id = l.repository_id
                    /\ x.parent_commit = l.commit } }

\* WITH RECURSIVE ... UNION: the rows each iteration adds, in iteration order.
RECURSIVE LineageLayers(_, _, _)
LineageLayers(commits, working, seen) ==
    IF working = {} THEN <<>>
    ELSE LET new == LineageStep(commits, working) \ (seen \cup working)
         IN  <<working>> \o LineageLayers(commits, new, seen \cup working)

\* The row orders the recursive query can produce: iterations in order, the
\* rows of one iteration in any order.
RECURSIVE LayerOrders(_)
LayerOrders(layers) ==
    IF layers = <<>> THEN { <<>> }
    ELSE { p \o rest : p \in Perms(Head(layers)), rest \in LayerOrders(Tail(layers)) }

bidirectionalLineage(commits, repo, commit) ==
    LayerOrders(LineageLayers(commits, LineageSeed(commits, repo, commit), {}))

\* limited_lineage: row_number() OVER () AS n ... LIMIT MaxTraversalLimit
limited_lineage(lineage) ==
    { [n |-> i, row |-> lineage[i]] : i \in 1..Min(Len(lineage), MaxTraversalLimit) }

\* lineage_with_dumps: JOIN lsif_dumps ON repository_id and commit
lineageWithDumps(lineage, dumps) ==
    UNION { { [n |-> a.n, root |-> d.Root, indexer |-> d.Indexer, dump_id |-> d.ID] :
                d \in { x \in dumps : /\ x.RepositoryID = a.row.repository_id
                                       /\ x.Commit = a.row.commit } } :
            a \in limited_lineage(lineage) }

\* visible_ids: the rows no closer row of the same indexer with an overlapping
\* root shadows.
visibleDumps(lwd) ==
    { t.dump_id : t \in { t1 \in lwd :
        ~ \E t2 \in lwd :
            /\ t2.n < t1.n
            /\ t1.indexer = t2.indexer
            /\ (LikeRootPrefix(t2.root, t1.root) \/ LikeRootPrefix(t1.root, t2.root)) } }

(***************************************************************************)
(* Visibility engine: the store queries                                    *)
(***************************************************************************)

\* DB.GetVisibleIDs, for the row order `lineage` the recursive query produced.
GetVisibleIDs(dumps, lineage) ==
    visibleDumps(lineageWithDumps(lineage, dumps))

\* DB.FindClosestDumps, first statement: the dump ids whose root matches the
\* file and that are in visible_ids (ORDER BY d.n; the ids only feed the IN
\* list of the second statement).
FindClosestDumpIDs(dumps, lineage, file) ==
    LET lwd == lineageWithDumps(lineage, dumps)
    IN  { d.dump_id : d \in { x \in lwd : /\ LikeRootPrefix(file, x.root)
                                           /\ x.dump_id \in visibleDumps(lwd) } }

\* DB.FindClosestDumps, second statement: SELECT ... FROM lsif_uploads u WHERE
\* id IN (ids), without ORDER BY: the rows come back in an order the statement
\* does not fix. The set of results the call can return.
FindClosestDumps(dumps, lineage, file) ==
    Perms({ u \in dumps : u.ID \in FindClosestDumpIDs(dumps, lineage, file) })

\* Server.findClosestDatabase: keep the candidates whose bundle answers Exists
\* for the path relative to the dump's root; `present` is the set of
\* (dump id, path) pairs the bundles hold.
findClosestDatabase(candidates, file, present) ==
    LET Exists(d) == <<d.ID, pathRelativeToRoot(d.Root, file)>> \in present
    IN  SelectSeq(candidates, Exists)

(***************************************************************************)
(* Visibility engine: state machine                                        *)
(***************************************************************************)

Repos == {1, 2}

\* What the bundles hold: the (dump id, path in dump) pairs for which
\* BundleClient.Exists answers true.
BundlePaths ==
    { { <<i, pathRelativeToRoot(r, f)>> : i \in ids, r \in Roots, f \in Files } :
        ids \in {{1, 2}, {1}, {2}} }

NoQuery ==
    [op |-> "none", repo |-> 0, commit |-> NoCommit, file |-> <<>>,
     lineage |-> <<>>, lwd |-> {}, ids |-> {}, dumps |-> <<>>]

VisInit ==
    /\ visIn \in [commits : CommitTables, dumps : DumpTables]
                 \cup [commits : {CyclicCommits}, dumps : CyclicDumpTables]
                 \cup [commits : {DeepCommits}, dumps : DeepDumpTables]
    /\ visOut = NoQuery

VisIdle ==
    /\ visIn = [commits |-> {}, dumps |-> {}]
    /\ visOut = NoQuery

\* GET visible ids: DB.GetVisibleIDs(repositoryID, commit)
VisGetVisibleIDs ==
    /\ visOut.op = "none"
    /\ \E repo \in Repos, commit \in Commits :
       \E lineage \in bidirectionalLineage(visIn.commits, repo, commit) :
          visOut' = [op |-> "GetVisibleIDs", repo |-> repo, commit |-> commit,
                     file |-> <<>>,
                     lineage |-> lineage,
                     lwd |-> lineageWithDumps(lineage, visIn.dumps),
                     ids |-> GetVisibleIDs(visIn.dumps, lineage),
                     dumps |-> <<>>]
    /\ UNCHANGED <<visIn, codecVars, hoverVars, pagerVars, resolveVars, driverVars, dbCacheVars, simpleVars, remoteVars, gatherVars, storeVars>>

\* DB.FindClosestDumps(repositoryID, commit, file)
VisFindClosestDumps ==
    /\ visOut.op = "none"
    /\ \E repo \in Repos, commit \in Commits, file \in Files :
       \E lineage \in bidirectionalLineage(visIn.commits, repo, commit) :
       \E result \in FindClosestDumps(visIn.dumps, lineage, file) :
          visOut' = [op |-> "FindClosestDumps", repo |-> repo, commit |-> commit,
                     file |-> file,
                     lineage |-> lineage,
                     lwd |-> lineageWithDumps(lineage, visIn.dumps),
                     ids |-> GetVisibleIDs(visIn.dumps, lineage),
                     dumps |-> result]
    /\ UNCHANGED <<visIn, codecVars, hoverVars, pagerVars, resolveVars, driverVars, dbCacheVars, simpleVars, remoteVars, gatherVars, storeVars>>

\* Server.findClosestDatabase(repositoryID, commit, file)
VisFindClosestDatabase ==
    /\ visOut.op = "none"
    /\ \E repo \in Repos, commit \in Commits, file \in Files :
       \E lineage \in bidirectionalLineage(visIn.commits, repo, commit) :
       \E candidates \in FindClosestDumps(visIn.dumps, lineage, file) :
       \E present \in BundlePaths :
          visOut' = [op |-> "findClosestDatabase", repo |-> repo, commit |-> commit,
                     file |-> file,
                     lineage |-> lineage,
                     lwd |-> lineageWithDumps(lineage, visIn.dumps),
                     ids |-> GetVisibleIDs(visIn.dumps, lineage),
                     dumps |-> findClosestDatabase(candidates, file, present)]
    /\ UNCHANGED <<visIn, codecVars, hoverVars, pagerVars, resolveVars, driverVars, dbCacheVars, simpleVars, remoteVars, gatherVars, storeVars>>

VisNext == VisGetVisibleIDs \/ VisFindClosestDumps \/ VisFindClosestDatabase

(***************************************************************************)
(* Cursor and its wire encoding                                            *)
(***************************************************************************)

\* bundles.MonikerData
MonikerData(kind, scheme, identifier, pid) ==
    [Kind |-> kind, Scheme |-> scheme, Identifier |-> identifier,
     PackageInformationID |-> pid]

\* Cursor{}: the zero value of the Cursor struct.
ZeroCursor ==
    [Phase |-> "", DumpID |-> 0, Path |-> <<>>, Line |-> 0, Character |-> 0,
     Monikers |-> <<>>, SkipResults |-> 0,
     Identifier |-> "", Scheme |-> "", Name |-> "", Version |-> "",
     DumpIDs |-> <<>>, TotalDumpsWhenBatching |-> 0,
     SkipDumpsWhenBatching |-> 0, SkipDumpsInBatch |-> 0,
     SkipResultsInDump |-> 0]

\* encodeCursor: "TODO - implement", returns the empty string.
encodeCursor(cursor) == <<>>

\* decodeCursor: "TODO - implement", returns the zero cursor and an error.
decodeCursor(raw) == [cursor |-> ZeroCursor, err |-> "Unimplemented"]

MaxSkip == 2

LocalMoniker == MonikerData("export", "s", "x", "")
ImportMoniker == MonikerData("import", "s", "y", "p")

\* Cursors of the four phases, as the pager's handlers build them.
CodecCursors ==
    { [ZeroCursor EXCEPT !.Phase = "same-dump", !.DumpID = d, !.Path = <<"f">>,
           !.Line = l, !.Character = c, !.Monikers = m, !.SkipResults = k] :
        d \in {1, 2}, l \in {0, 1}, c \in {0, 1},
        m \in {<<>>, <<LocalMoniker, ImportMoniker>>}, k \in 0..MaxSkip }
    \cup
    { [ZeroCursor EXCEPT !.Phase = "definition-monikers", !.DumpID = d,
           !.Path = <<"f">>, !.Monikers = m, !.SkipResults = k] :
        d \in {1, 2}, m \in {<<>>, <<LocalMoniker, ImportMoniker>>},
        k \in 0..MaxSkip }
    \cup
    { [ZeroCursor EXCEPT !.Phase = ph, !.DumpID = d, !.Scheme = "s",
           !.Identifier = "x", !.Name = "n", !.Version = "v", !.DumpIDs = ids,
           !.TotalDumpsWhenBatching = Len(ids), !.SkipDumpsWhenBatching = Len(ids),
           !.SkipDumpsInBatch = i, !.SkipResultsInDump = k] :
        ph \in {"same-repo", "remote-repo"}, d \in {1, 2},
        ids \in {<<>>, <<2>>, <<2, 3>>}, i \in 0..1, k \in 0..MaxSkip }

NoCodec == [stage |-> "cursor", raw |-> <<>>, cursor |-> ZeroCursor, err |-> ""]

CodecInit ==
    /\ codecIn \in CodecCursors
    /\ codecOut = NoCodec

CodecIdle ==
    /\ codecIn = ZeroCursor
    /\ codecOut = NoCodec

\* The server puts encodeCursor(cursor) on the wire.
CodecEncode ==
    /\ codecOut.stage = "cursor"
    /\ codecOut' = [codecOut EXCEPT !.stage = "encoded", !.raw = encodeCursor(codecIn)]
    /\ UNCHANGED <<codecIn, visVars, hoverVars, pagerVars, resolveVars, driverVars, dbCacheVars, simpleVars, remoteVars, gatherVars, storeVars>>

\* The next request hands the string back: decodeCursor(raw).
CodecDecode ==
    /\ codecOut.stage = "encoded"
    /\ LET r == decodeCursor(codecOut.raw)
       IN  codecOut' = [codecOut EXCEPT !.stage = "decoded", !.cursor = r.cursor,
                                        !.err = r.err]
    /\ UNCHANGED <<codecIn, visVars, hoverVars, pagerVars, resolveVars, driverVars, dbCacheVars, simpleVars, remoteVars, gatherVars, storeVars>>

CodecNext == CodecEncode \/ CodecDecode

(***************************************************************************)
(* Store and bundle contents, and the calls that read them                 *)
(***************************************************************************)

\* Dump{}: the zero value of db.Dump.
ZeroDump == [DumpRow(0, 0, "", <<>>, "") EXCEPT !.State = ""]

\* bundles.Range
NewRange(line, character) ==
    [Start |-> [Line |-> line, Character |-> character],
     End |-> [Line |-> line, Character |-> character + 1]]

\* A location as a bundle stores it: a path relative to the dump root.
InternalLocation(path, line, character) ==
    [Path |-> path, Range |-> NewRange(line, character)]

\* bundles.Range{}: the zero value.
ZeroRange ==
    [Start |-> [Line |-> 0, Character |-> 0], End |-> [Line |-> 0, Character |-> 0]]

\* bundles.Location{}: the zero value.
ZeroLocation == [DumpID |-> 0, Path |-> <<>>, Range |-> ZeroRange]

\* A pointer argument that is nil.
Nil == -1

\* take when the request carries none (bundle manager's handleMonikerResults).
DefaultTake == 100

\* The source position the bundle of dump 1 knows a symbol at.
SymbolAt == [dump |-> 1, path |-> <<"f">>, line |-> 1, character |-> 1]

\* One record of a call made to the store or to a bundle.
Call(op, dump) == [op |-> op, dump |-> dump]

\* A monikerResults request to the bundle of a dump, with the skip and take
\* arguments it carries (Nil when the pointer is nil).
MonikerCall(dump, skip, take) ==
    [op |-> "MonikerResults", dump |-> dump, skip |-> skip, take |-> take]

\* BundleClient.addBundleIDToLocations
addBundleIDToLocations(bundleID, locations) ==
    [i \in DOMAIN locations |->
        [DumpID |-> bundleID, Path |-> locations[i].Path, Range |-> locations[i].Range]]

\* DB.GetDumpByID
GetDumpByID(w, id) ==
    IF \E d \in w.dumps : d.ID = id
    THEN [dump |-> CHOOSE d \in w.dumps : d.ID = id, exists |-> TRUE]
    ELSE [dump |-> ZeroDump, exists |-> FALSE]

getDumpAndBundleClient_found(w, uploadID) ==
    [dump |-> GetDumpByID(w, uploadID).dump, exists |-> TRUE]

\* Server.getDumpAndBundleClient
getDumpAndBundleClient(w, uploadID) == GetDumpByID(w, uploadID)

\* DB.GetPackage: the row of lsif_packages joined with its upload; the found
\* flag the code returns is false on every path.
GetPackage(w, scheme, name, version) ==
    LET rows == { p \in w.packages :
                    p.scheme = scheme /\ p.name = name /\ p.version = version }
    IN  IF rows = {} THEN [dump |-> ZeroDump, exists |-> FALSE]
        ELSE [dump |-> GetDumpByID(w, (CHOOSE p \in rows : TRUE).dump_id).dump,
              exists |-> FALSE]

\* BundleClient.Hover
Hover(w, bundleID, path, line, character) ==
    IF <<bundleID, path, line, character>> \in w.hover
    THEN [text |-> <<bundleID, path, line, character>>,
          range |-> NewRange(line, character), exists |-> TRUE]
    ELSE [text |-> <<>>, range |-> ZeroRange, exists |-> FALSE]

\* BundleClient.Definitions
Definitions(w, bundleID, path, line, character) ==
    IF [dump |-> bundleID, path |-> path, line |-> line, character |-> character] = SymbolAt
    THEN addBundleIDToLocations(bundleID, w.definitions)
    ELSE <<>>

\* BundleClient.References
References(w, bundleID, path, line, character) ==
    IF [dump |-> bundleID, path |-> path, line |-> line, character |-> character] = SymbolAt
    THEN addBundleIDToLocations(bundleID, w.references)
    ELSE <<>>

\* BundleClient.MonikersByPosition
MonikersByPosition(w, bundleID, path, line, character) ==
    IF [dump |-> bundleID, path |-> path, line |-> line, character |-> character] = SymbolAt
    THEN w.monikers
    ELSE <<>>

\* BundleClient.MonikerResults, answered by the bundle manager with
\* LIMIT take OFFSET skip over the rows of (scheme, identifier).
MonikerResults(w, bundleID, modelType, scheme, identifier, skip, take) ==
    LET key == <<bundleID, modelType, scheme, identifier>>
        rows == IF key \in DOMAIN w.mres THEN w.mres[key] ELSE <<>>
        s == IF skip = Nil THEN 0 ELSE skip
        t == IF take = Nil THEN DefaultTake ELSE take
    IN  [locations |-> addBundleIDToLocations(bundleID,
                            SubSeq(rows, s + 1, Min(s + t, Len(rows)))),
         count |-> Len(rows)]

\* BundleClient.PackageInformation
PackageInformation(w, bundleID, path, packageInformationId) ==
    [Name |-> "n", Version |-> "v"]

\* resolveLocations(dump, locations): the single-dump shortcut.
resolveLocations(dump, locations) ==
    [i \in DOMAIN locations |->
        [Dump |-> dump, Path |-> dump.Root \o locations[i].Path,
         Range |-> locations[i].Range]]

\* DB.GetDumps: dumpsByID[id], the zero Dump for an id that has no row.
GetDumps(w, id) == GetDumpByID(w, id).dump

Server_resolveLocations_firstDump(w, locations) ==
    [i \in DOMAIN locations |->
        [Dump |-> GetDumps(w, locations[1].DumpID),
         Path |-> GetDumps(w, locations[1].DumpID).Root \o locations[i].Path,
         Range |-> locations[i].Range]]

\* Server.resolveLocations(locations): the multi-dump resolution.
Server_resolveLocations(w, locations) ==
    [i \in DOMAIN locations |->
        [Dump |-> GetDumps(w, locations[i].DumpID),
         Path |-> GetDumps(w, locations[i].DumpID).Root \o locations[i].Path,
         Range |-> locations[i].Range]]

\* Server.lookupMoniker, the loop over the rows of the defining dump
\* ("TODO - DRY").
lookupMonikerLocations(dump, locations) ==
    [i \in DOMAIN locations |->
        [DumpID |-> locations[i].DumpID,
         Path |-> dump.Root \o locations[i].Path,
         Range |-> locations[i].Range]]

\* Server.lookupMoniker
lookupMoniker(w, dumpID, path, moniker, model, skip, take) ==
    IF moniker.PackageInformationID = ""
    THEN [locations |-> <<>>, count |-> 0, calls |-> <<>>]
    ELSE
      LET pid == PackageInformation(w, dumpID, path, moniker.PackageInformationID)
          pkg == GetPackage(w, moniker.Scheme, pid.Name, pid.Version)
          res == MonikerResults(w, pkg.dump.ID, model, moniker.Scheme,
                                moniker.Identifier, skip, take)
          calls == <<Call("PackageInformation", dumpID), Call("GetPackage", 0)>>
      IN  IF ~pkg.exists
          THEN [locations |-> <<>>, count |-> 0, calls |-> calls]
          ELSE [locations |-> lookupMonikerLocations(pkg.dump, res.locations),
                count |-> res.count,
                calls |-> calls \o <<MonikerCall(pkg.dump.ID, skip, take)>>]

\* Server.lookupPackageInformation
lookupPackageInformation(w, dumpID, path, moniker) ==
    IF moniker.PackageInformationID = ""
    THEN [pi |-> [Name |-> "", Version |-> ""], exists |-> FALSE, calls |-> <<>>]
    ELSE [pi |-> PackageInformation(w, dumpID, path, moniker.PackageInformationID),
          exists |-> TRUE, calls |-> <<Call("PackageInformation", dumpID)>>]

\* [][]MonikerData in iteration order of the nested loops.
RECURSIVE Flatten(_)
Flatten(rangeMonikers) ==
    IF rangeMonikers = <<>> THEN <<>>
    ELSE Head(rangeMonikers) \o Flatten(Tail(rangeMonikers))

(***************************************************************************)
(* Definitions resolver and hover                                          *)
(***************************************************************************)

\* Server.getDefsRaw, the loop over the monikers of the position.
RECURSIVE getDefsRawMonikers(_, _, _, _, _)
getDefsRawMonikers(w, dump, pathInDb, monikers, calls) ==
    IF monikers = <<>> THEN [locations |-> <<>>, calls |-> calls]
    ELSE
      LET moniker == Head(monikers) IN
      IF moniker.Kind = "import"
      THEN LET r == lookupMoniker(w, dump.ID, pathInDb, moniker, "definition", Nil, Nil)
           IN  IF Len(r.locations) > 0
               THEN [locations |-> Server_resolveLocations(w, r.locations),
                     calls |-> calls \o r.calls \o <<Call("GetDumps", 0)>>]
               ELSE getDefsRawMonikers(w, dump, pathInDb, Tail(monikers),
                                       calls \o r.calls)
      ELSE LET r == MonikerResults(w, dump.ID, "definition", moniker.Scheme,
                                   moniker.Identifier, Nil, Nil)
               c == calls \o <<MonikerCall(dump.ID, Nil, Nil)>>
           IN  IF Len(r.locations) > 0
               THEN [locations |-> resolveLocations(dump, r.locations), calls |-> c]
               ELSE getDefsRawMonikers(w, dump, pathInDb, Tail(monikers), c)

\* Server.getDefsRaw
getDefsRaw(w, dump, pathInDb, line, character) ==
    LET locations == Definitions(w, dump.ID, pathInDb, line, character)
        c1 == <<Call("Definitions", dump.ID)>>
    IN  IF Len(locations) > 0
        THEN [locations |-> resolveLocations(dump, locations), calls |-> c1]
        ELSE getDefsRawMonikers(w, dump, pathInDb,
                 Flatten(MonikersByPosition(w, dump.ID, pathInDb, line, character)),
                 c1 \o <<Call("MonikersByPosition", dump.ID)>>)

\* Server.getDefs
getDefs(w, file, line, character, uploadID) ==
    LET r == getDumpAndBundleClient(w, uploadID)
        c0 == <<Call("GetDumpByID", uploadID)>>
    IN  IF ~r.exists
        THEN [locations |-> <<>>, err |-> "ErrMissingDump", calls |-> c0]
        ELSE LET d == getDefsRaw(w, r.dump, pathRelativeToRoot(r.dump.Root, file),
                                 line, character)
             IN  [locations |-> d.locations, err |-> "", calls |-> c0 \o d.calls]

\* A fallback that asks at the repository path of the definition.
hoverTarget_repositoryPath(definition) ==
    [dump |-> definition.Dump.ID,
     path |-> definition.Path,
     line |-> definition.Range.Start.Line,
     character |-> definition.Range.Start.Character]

\* Server.getHover: where the fallback hover is asked for.
hoverTarget(definition) ==
    [dump |-> definition.Dump.ID,
     path |-> pathRelativeToRoot(definition.Dump.Root, definition.Path),
     line |-> definition.Range.Start.Line,
     character |-> definition.Range.Start.Character]

NoHover == [text |-> <<>>, range |-> ZeroRange, exists |-> FALSE]

\* Server.getHover
getHover(w, file, line, character, uploadID) ==
    LET r == getDumpAndBundleClient(w, uploadID)
        c0 == <<Call("GetDumpByID", uploadID)>>
    IN
    IF ~r.exists
    THEN [hover |-> NoHover, err |-> "ErrMissingDump", calls |-> c0]
    ELSE
      LET pathx == pathRelativeToRoot(r.dump.Root, file)
          h == Hover(w, r.dump.ID, pathx, line, character)
          c1 == c0 \o <<Call("Hover", r.dump.ID)>>
      IN
      IF h.exists
      THEN [hover |-> h, err |-> "", calls |-> c1]
      ELSE
        LET resolved == getDefsRaw(w, r.dump, pathx, line, character)
            c2 == c1 \o resolved.calls
        IN
        IF Len(resolved.locations) = 0
        THEN [hover |-> NoHover, err |-> "", calls |-> c2]
        ELSE LET t == hoverTarget(resolved.locations[1])
             IN  [hover |-> Hover(w, t.dump, t.path, t.line, t.character),
                  err |-> "",
                  calls |-> c2 \o <<Call("Hover", t.dump)>>]

(***************************************************************************)
(* Reference pager: the four phases                                        *)
(***************************************************************************)

\* What a phase function returns: ([]ResolvedLocation, Cursor, bool, error),
\* with the calls it made and the dump batch it iterated.
PageResult(locations, cursor, hasNewCursor, err, calls, batch) ==
    [locations |-> locations, cursor |-> cursor, hasNewCursor |-> hasNewCursor,
     err |-> err, calls |-> calls, batch |-> batch]

\* return nil, Cursor{}, false, nil
NoResults(calls, batch) == PageResult(<<>>, ZeroCursor, FALSE, "", calls, batch)

\* cap(locations): a nil or empty slice has none, a filled one has its length
\* and whatever room the decoder and append left behind it.
SliceCap(locations, slack) ==
    IF Len(locations) = 0 THEN 0 ELSE Len(locations) + slack

\* locations[low:high] for low <= high <= cap: the elements past the length
\* are zero values.
Slice(locations, low, high) ==
    [i \in 1..(high - low) |->
        IF low + i <= Len(locations) THEN locations[low + i] ELSE ZeroLocation]

\* Server.performSameDumpReferences, the loop appending each cursor
\* moniker's reference rows.
RECURSIVE sameDumpMonikerResults(_, _, _)
sameDumpMonikerResults(w, bundleID, monikers) ==
    IF monikers = <<>> THEN <<>>
    ELSE MonikerResults(w, bundleID, "reference", Head(monikers).Scheme,
                        Head(monikers).Identifier, Nil, Nil).locations
         \o sameDumpMonikerResults(w, bundleID, Tail(monikers))

\* Server.performSameDumpReferences, the cursor of the next same-dump page.
sameDumpCursor_stuck(cursor, newOffset) == cursor

sameDumpCursor(cursor, newOffset) ==
    [ZeroCursor EXCEPT !.Phase = cursor.Phase, !.DumpID = cursor.DumpID,
        !.Path = cursor.Path, !.Line = cursor.Line, !.Character = cursor.Character,
        !.Monikers = cursor.Monikers, !.SkipResults = newOffset]

\* Server.performSameDumpReferences
performSameDumpReferences(w, limit, cursor) ==
    LET newOffset == cursor.SkipResults + limit
        Page(dump, locations, calls) ==
            IF newOffset > SliceCap(locations, w.slack)
            THEN PageResult(<<>>, ZeroCursor, FALSE, "panic", calls, <<>>)
            ELSE IF newOffset < Len(locations)
            THEN PageResult(
                     resolveLocations(dump, Slice(locations, cursor.SkipResults, newOffset)),
                     sameDumpCursor(cursor, cursor.SkipResults + limit),
                     TRUE, "", calls, <<>>)
            ELSE PageResult(
                     resolveLocations(dump, Slice(locations, cursor.SkipResults, newOffset)),
                     ZeroCursor, FALSE, "", calls, <<>>)
        WithDump(r, c0) ==
            IF ~r.exists THEN NoResults(c0, <<>>)
            ELSE Page(r.dump,
                      References(w, r.dump.ID, cursor.Path, cursor.Line, cursor.Character)
                      \o sameDumpMonikerResults(w, r.dump.ID, cursor.Monikers),
                      c0 \o <<Call("References", r.dump.ID)>>
                         \o [i \in DOMAIN cursor.Monikers |->
                                MonikerCall(r.dump.ID, Nil, Nil)])
    IN  WithDump(getDumpAndBundleClient(w, cursor.DumpID),
                 <<Call("GetDumpByID", cursor.DumpID)>>)

\* Server.performDefinitionMonikersReference, the loop over cursor.Monikers.
\* lookupMoniker's trailing parameters are (skip, take); the call hands it
\* (&limit, &cursor.SkipResults).
RECURSIVE definitionMonikersLoop(_, _, _, _, _)
definitionMonikersLoop(w, limit, cursor, monikers, calls) ==
    IF monikers = <<>> THEN NoResults(calls, <<>>)
    ELSE IF Head(monikers).Kind # "import"
    THEN definitionMonikersLoop(w, limit, cursor, Tail(monikers), calls)
    ELSE
      LET Page(r, resolved, c2) ==
              IF cursor.SkipResults + Len(r.locations) < r.count
              THEN PageResult(resolved,
                       [ZeroCursor EXCEPT !.Phase = cursor.Phase,
                           !.DumpID = cursor.DumpID, !.Path = cursor.Path,
                           !.Monikers = cursor.Monikers,
                           !.SkipResults = cursor.SkipResults + limit],
                       TRUE, "", c2, <<>>)
              ELSE PageResult(resolved, ZeroCursor, FALSE, "", c2, <<>>)
          Looked(r) ==
              IF Len(r.locations) > 0
              THEN Page(r, Server_resolveLocations(w, r.locations),
                        calls \o r.calls \o <<Call("GetDumps", 0)>>)
              ELSE definitionMonikersLoop(w, limit, cursor, Tail(monikers),
                                          calls \o r.calls)
      IN  Looked(lookupMoniker(w, cursor.DumpID, cursor.Path, Head(monikers),
                               "reference", limit, cursor.SkipResults))

\* Server.performDefinitionMonikersReference
performDefinitionMonikersReference(w, limit, cursor) ==
    definitionMonikersLoop(w, limit, cursor, cursor.Monikers, <<>>)

\* The collation order of the characters that occur in roots.
Alphabet == <<"/", "a", "b", "c", "r">>

CharRank(ch) == CHOOSE i \in DOMAIN Alphabet : Alphabet[i] = ch

\* a < b as ORDER BY compares two strings.
RECURSIVE StringLess(_, _)
StringLess(a, b) ==
    IF b = <<>> THEN FALSE
    ELSE IF a = <<>> THEN TRUE
    ELSE IF Head(a) = Head(b) THEN StringLess(Tail(a), Tail(b))
    ELSE CharRank(Head(a)) < CharRank(Head(b))

\* A row of lsif_references LEFT JOINed with its dump.
ReferenceRow(w, dumpID) ==
    [dump_id |-> dumpID, scheme |-> "s", name |-> "n", version |-> "v",
     d |-> GetDumpByID(w, dumpID).dump]

\* The rows of a query, in an order its ORDER BY allows; `before` holds the
\* pairs of rows the ORDER BY puts strictly in that order.
OrderedRows(rows, before) ==
    CHOOSE p \in Perms(rows) :
        \A i, j \in DOMAIN p : i < j => <<p[j], p[i]>> \notin before

\* LIMIT limit OFFSET offset
LimitOffset(rows, limit, offset) ==
    SubSeq(rows, offset + 1, Min(offset + limit, Len(rows)))

\* The rows CountSameRepoPackageRefs counts and GetSameRepoPackageRefs pages
\* through: ORDER BY d.root.
SameRepoPackageRefs(w, scheme, name, version, visibleIDs) ==
    LET rows == { r \in { ReferenceRow(w, id) : id \in w.refIndex } :
                    /\ r.scheme = scheme /\ r.name = name /\ r.version = version
                    /\ r.dump_id \in visibleIDs }
    IN  OrderedRows(rows,
            { pair \in rows \X rows : StringLess(pair[1].d.Root, pair[2].d.Root) })

\* DB.CountSameRepoPackageRefs
CountSameRepoPackageRefs(w, scheme, name, version, visibleIDs) ==
    Len(SameRepoPackageRefs(w, scheme, name, version, visibleIDs))

\* DB.GetSameRepoPackageRefs
GetSameRepoPackageRefs(w, scheme, name, version, visibleIDs, offset, limit) ==
    LET rows == LimitOffset(SameRepoPackageRefs(w, scheme, name, version, visibleIDs),
                            limit, offset)
    IN  [i \in DOMAIN rows |-> [DumpID |-> rows[i].d.ID]]

\* The rows of the cross-repository queries without the visible_at_tip
\* condition.
PackageRefs_anyDump(w, scheme, name, version, repositoryID) ==
    LET rows == { r \in { ReferenceRow(w, id) : id \in w.refIndex } :
                    /\ r.scheme = scheme /\ r.name = name /\ r.version = version
                    /\ r.d.ID # 0
                    /\ r.d.RepositoryID # repositoryID }
    IN  OrderedRows(rows,
            { pair \in rows \X rows :
                \/ pair[1].d.RepositoryID < pair[2].d.RepositoryID
                \/ /\ pair[1].d.RepositoryID = pair[2].d.RepositoryID
                   /\ StringLess(pair[1].d.Root, pair[2].d.Root) })

\* The rows CountPackageRefs counts and GetPackageRefs pages through:
\* d.repository_id != $4 AND d.visible_at_tip, ORDER BY d.repository_id, d.root.
PackageRefs(w, scheme, name, version, repositoryID) ==
    LET rows == { r \in { ReferenceRow(w, id) : id \in w.refIndex } :
                    /\ r.scheme = scheme /\ r.name = name /\ r.version = version
                    /\ r.d.ID # 0
                    /\ r.d.RepositoryID # repositoryID
                    /\ r.dump_id \in w.tip }
    IN  OrderedRows(rows,
            { pair \in rows \X rows :
                \/ pair[1].d.RepositoryID < pair[2].d.RepositoryID
                \/ /\ pair[1].d.RepositoryID = pair[2].d.RepositoryID
                   /\ StringLess(pair[1].d.Root, pair[2].d.Root) })

\* DB.CountPackageRefs
CountPackageRefs(w, scheme, name, version, repositoryID) ==
    Len(PackageRefs(w, scheme, name, version, repositoryID))

\* DB.GetPackageRefs
GetPackageRefs(w, scheme, name, version, repositoryID, limit, offset) ==
    LET rows == LimitOffset(PackageRefs(w, scheme, name, version, repositoryID),
                            limit, offset)
    IN  [i \in DOMAIN rows |-> [DumpID |-> rows[i].d.ID]]

\* applyBloomFilter: "TODO - implement", passes every reference.
applyBloomFilter_unscanned(refs, identifier, limit) == [filtered |-> refs, scanned |-> 0]

applyBloomFilter(refs, identifier, limit) == [filtered |-> refs, scanned |-> Len(refs)]

\* Server.gatherPackageReferences; `pager` maps an offset to the page the
\* store returns for it.
RECURSIVE gatherPackageReferences(_, _, _, _, _, _, _)
gatherPackageReferences(identifier, offset, limit, totalCount, pager, refs, n) ==
    IF ~(Len(refs) < limit /\ offset < totalCount)
    THEN [refs |-> refs, newOffset |-> offset, pages |-> n]
    ELSE LET page == pager[offset] IN
         IF Len(page) = 0
         THEN [refs |-> refs, newOffset |-> offset, pages |-> n + 1]
         ELSE LET f == applyBloomFilter(page, identifier, limit - Len(refs))
              IN  gatherPackageReferences(identifier, offset + f.scanned, limit,
                      totalCount, pager, refs \o f.filtered, n + 1)

\* The store's answer to GetVisibleIDs(repositoryID, commit).
StoreVisibleIDs(w, repositoryID, commit) ==
    CHOOSE ids \in { GetVisibleIDs(w.dumps, l) :
                       l \in bidirectionalLineage(w.commits, repositoryID, commit) } : TRUE

\* Server.getSameRepoRemotePackageReferences: (refs, totalCount, newOffset)
getSameRepoRemotePackageReferences(w, repositoryID, commit, scheme, name, version, identifier, limit, offset) ==
    LET Gathered(totalCount, g) ==
            [r |-> <<g.refs, totalCount, g.newOffset>>,
             calls |-> <<Call("GetVisibleIDs", 0), Call("CountSameRepoPackageRefs", 0)>>
                       \o [i \in 1..g.pages |-> Call("GetSameRepoPackageRefs", 0)]]
        Counted(visibleIDs, totalCount) ==
            Gathered(totalCount,
                gatherPackageReferences(identifier, offset, limit, totalCount,
                    [o \in 0..totalCount |->
                        GetSameRepoPackageRefs(w, scheme, name, version, visibleIDs,
                                               o, limit)],
                    <<>>, 0))
        Visible(visibleIDs) ==
            Counted(visibleIDs,
                    CountSameRepoPackageRefs(w, scheme, name, version, visibleIDs))
    IN  Visible(StoreVisibleIDs(w, repositoryID, commit))

\* Server.getPackageReferences: (refs, totalCount, newOffset)
getPackageReferences(w, repositoryID, scheme, name, version, identifier, limit, offset) ==
    LET Gathered(totalCount, g) ==
            [r |-> <<g.refs, totalCount, g.newOffset>>,
             calls |-> <<Call("CountPackageRefs", 0)>>
                       \o [i \in 1..g.pages |-> Call("GetPackageRefs", 0)]]
        Counted(totalCount) ==
            Gathered(totalCount,
                gatherPackageReferences(identifier, offset, limit, totalCount,
                    [o \in 0..totalCount |->
                        GetPackageRefs(w, scheme, name, version, repositoryID, limit, o)],
                    <<>>, 0))
    IN  Counted(CountPackageRefs(w, scheme, name, version, repositoryID))

\* Server.locationsFromRemoteReferences: "Skip the remote reference that show
\* up for ourselves".
skipOrigin_never(batchDumpID, dumpID) == FALSE

skipOrigin(batchDumpID, dumpID) == batchDumpID = dumpID

\* Server.locationsFromRemoteReferences, the loop over cursor.DumpIDs; i is
\* the loop index.  MonikerResults' trailing parameters are (skip, take); the
\* call hands it (&limit, &cursor.SkipResultsInDump).
RECURSIVE remoteReferencesLoop(_, _, _, _, _, _, _, _)
remoteReferencesLoop(w, dumpID, scheme, identifier, limit, cursor, i, calls) ==
    IF i >= Len(cursor.DumpIDs) THEN NoResults(calls, cursor.DumpIDs)
    ELSE IF i < cursor.SkipDumpsInBatch \/ skipOrigin(cursor.DumpIDs[i + 1], dumpID)
    THEN remoteReferencesLoop(w, dumpID, scheme, identifier, limit, cursor, i + 1, calls)
    ELSE
      LET batchDumpID == cursor.DumpIDs[i + 1]
          base == [ZeroCursor EXCEPT !.Phase = cursor.Phase,
                      !.DumpID = cursor.DumpID, !.Identifier = cursor.Identifier,
                      !.Scheme = cursor.Scheme, !.Name = cursor.Name,
                      !.Version = cursor.Version,
                      !.TotalDumpsWhenBatching = cursor.TotalDumpsWhenBatching,
                      !.SkipDumpsWhenBatching = cursor.SkipDumpsWhenBatching]
          Page(res, resolved, c2) ==
              IF cursor.SkipResultsInDump + Len(res.locations) < res.count
              THEN PageResult(resolved,
                       [base EXCEPT !.DumpIDs = cursor.DumpIDs,
                           !.SkipDumpsInBatch = cursor.SkipDumpsInBatch,
                           !.SkipResultsInDump = cursor.SkipResultsInDump + limit],
                       TRUE, "", c2, cursor.DumpIDs)
              ELSE IF i + 1 < Len(cursor.DumpIDs)
              THEN PageResult(resolved,
                       [base EXCEPT !.DumpIDs = cursor.DumpIDs,
                           !.SkipDumpsInBatch = i + 1, !.SkipResultsInDump = 0],
                       TRUE, "", c2, cursor.DumpIDs)
              ELSE IF cursor.SkipDumpsWhenBatching < cursor.TotalDumpsWhenBatching
              THEN PageResult(resolved, base, TRUE, "", c2, cursor.DumpIDs)
              ELSE PageResult(resolved, ZeroCursor, FALSE, "", c2, cursor.DumpIDs)
          Asked(dump, res, c2) ==
              IF Len(res.locations) > 0
              THEN Page(res, resolveLocations(dump, res.locations), c2)
              ELSE remoteReferencesLoop(w, dumpID, scheme, identifier, limit, cursor,
                                        i + 1, c2)
          WithDump(r, c1) ==
              IF ~r.exists
              THEN remoteReferencesLoop(w, dumpID, scheme, identifier, limit, cursor,
                                        i + 1, c1)
              ELSE Asked(r.dump,
                         MonikerResults(w, r.dump.ID, "reference", scheme, identifier,
                                        limit, cursor.SkipResultsInDump),
                         c1 \o <<MonikerCall(batchDumpID, limit, cursor.SkipResultsInDump)>>)
      IN  WithDump(getDumpAndBundleClient(w, batchDumpID),
                   calls \o <<Call("GetDumpByID", batchDumpID)>>)

\* Server.locationsFromRemoteReferences; fx is what the batch query returned,
\* (refs, totalCount, newOffset), which the code receives as
\* packageRefs, newOffset, totalCount.
locationsFromRemoteReferences(w, dumpID, scheme, identifier, limit, cursor, fx) ==
    IF Len(cursor.DumpIDs) = 0
    THEN LET packageRefs == fx.r[1]
             newOffset == fx.r[2]
             totalCount == fx.r[3]
             filled == [cursor EXCEPT
                           !.DumpIDs = [i \in DOMAIN packageRefs |-> packageRefs[i].DumpID],
                           !.SkipDumpsWhenBatching = newOffset,
                           !.TotalDumpsWhenBatching = totalCount]
         IN  remoteReferencesLoop(w, dumpID, scheme, identifier, limit, filled, 0, fx.calls)
    ELSE remoteReferencesLoop(w, dumpID, scheme, identifier, limit, cursor, 0, <<>>)

\* Server.performSameRepositoryRemoteReferences
performSameRepositoryRemoteReferences(w, repositoryID, commit, remoteDumpLimit, limit, cursor) ==
    locationsFromRemoteReferences(w, cursor.DumpID, cursor.Scheme, cursor.Identifier,
        limit, cursor,
        getSameRepoRemotePackageReferences(w, repositoryID, commit, cursor.Scheme,
            cursor.Name, cursor.Version, cursor.Identifier, remoteDumpLimit,
            cursor.SkipDumpsWhenBatching))

\* Server.performRemoteReferences
performRemoteReferences(w, repositoryID, remoteDumpLimit, limit, cursor) ==
    locationsFromRemoteReferences(w, cursor.DumpID, cursor.Scheme, cursor.Identifier,
        limit, cursor,
        getPackageReferences(w, repositoryID, cursor.Scheme, cursor.Name,
            cursor.Version, cursor.Identifier, remoteDumpLimit,
            cursor.SkipDumpsWhenBatching))

(***************************************************************************)
(* Reference pager: cursor transitions and the two drivers                 *)
(***************************************************************************)

\* Server.makeCursor: the seed cursor of a request that carries none.
makeCursor(w, repositoryID, commit, file, line, character, uploadID, limit) ==
    LET r == getDumpAndBundleClient(w, uploadID)
        c0 == <<Call("GetDumpByID", uploadID)>>
    IN
    IF ~r.exists THEN [cursor |-> ZeroCursor, err |-> "ErrMissingDump", calls |-> c0]
    ELSE
      LET pathInDb == pathRelativeToRoot(r.dump.Root, file)
          rangeMonikers == MonikersByPosition(w, r.dump.ID, pathInDb, line, character)
      IN  [cursor |-> [ZeroCursor EXCEPT !.Phase = "same-dump", !.DumpID = r.dump.ID,
                          !.Path = pathInDb, !.Line = line, !.Character = character,
                          !.Monikers = Flatten(rangeMonikers), !.SkipResults = 0],
           err |-> "",
           calls |-> c0 \o <<Call("MonikersByPosition", r.dump.ID)>>]

\* The cursor that follows an exhausted same-dump phase.
definitionMonikersCursor(cursor) ==
    [ZeroCursor EXCEPT !.DumpID = cursor.DumpID, !.Phase = "definition-monikers",
        !.Path = cursor.Path, !.Line = cursor.Line, !.Character = cursor.Character,
        !.Monikers = cursor.Monikers, !.SkipResults = 0]

\* The cursor that follows an exhausted definition-monikers phase, for the
\* moniker whose package information was found.
sameRepoCursor(cursor, moniker, packageInformation) ==
    [ZeroCursor EXCEPT !.DumpID = cursor.DumpID, !.Phase = "same-repo",
        !.Scheme = moniker.Scheme, !.Identifier = moniker.Identifier,
        !.Name = packageInformation.Name, !.Version = packageInformation.Version]

remoteRepoCursor_sameDump(cursor) ==
    [ZeroCursor EXCEPT !.DumpID = cursor.DumpID, !.Phase = "same-dump",
        !.Scheme = cursor.Scheme, !.Identifier = cursor.Identifier,
        !.Name = cursor.Name, !.Version = cursor.Version]

\* The cursor that follows an exhausted same-repo phase.
remoteRepoCursor(cursor) ==
    [ZeroCursor EXCEPT !.DumpID = cursor.DumpID, !.Phase = "remote-repo",
        !.Scheme = cursor.Scheme, !.Identifier = cursor.Identifier,
        !.Name = cursor.Name, !.Version = cursor.Version]

\* ReferencePageResolver.handleDefinitionMonikersCursor, the loop that looks
\* for the first moniker with package information.
RECURSIVE firstPackageInformation(_, _, _, _)
firstPackageInformation(w, cursor, monikers, calls) ==
    IF monikers = <<>> THEN [cursor |-> ZeroCursor, exists |-> FALSE, calls |-> calls]
    ELSE LET Looked(r) ==
                 IF r.exists
                 THEN [cursor |-> sameRepoCursor(cursor, Head(monikers), r.pi),
                       exists |-> TRUE, calls |-> calls \o r.calls]
                 ELSE firstPackageInformation(w, cursor, Tail(monikers),
                                              calls \o r.calls)
         IN  Looked(lookupPackageInformation(w, cursor.DumpID, cursor.Path,
                                             Head(monikers)))

\* A handler's result with the cursor of the next phase put in.
WithCursor(r, cursor, calls) ==
    [r EXCEPT !.cursor = cursor, !.hasNewCursor = TRUE, !.calls = r.calls \o calls]

\* handleSameDumpCursor that hands back what the phase returned, without the
\* cursor of the next phase.
handleSameDumpCursor_ends(w, req, cursor) ==
    performSameDumpReferences(w, req.limit, cursor)

\* ReferencePageResolver.handleSameDumpCursor
handleSameDumpCursor(w, req, cursor) ==
    LET Next(r) == IF r.err # "" \/ r.hasNewCursor THEN r
                   ELSE WithCursor(r, definitionMonikersCursor(cursor), <<>>)
    IN  Next(performSameDumpReferences(w, req.limit, cursor))

\* ReferencePageResolver.handleDefinitionMonikersCursor
handleDefinitionMonikersCursor(w, req, cursor) ==
    LET Found(r, n) ==
            IF n.exists THEN WithCursor(r, n.cursor, n.calls)
            ELSE [r EXCEPT !.cursor = ZeroCursor, !.hasNewCursor = FALSE,
                           !.calls = r.calls \o n.calls]
        Next(r) == IF r.err # "" \/ r.hasNewCursor THEN r
                   ELSE Found(r, firstPackageInformation(w, cursor, cursor.Monikers, <<>>))
    IN  Next(performDefinitionMonikersReference(w, req.limit, cursor))

\* ReferencePageResolver.handleSameRepoCursor
handleSameRepoCursor(w, req, cursor) ==
    LET Next(r) == IF r.err # "" \/ r.hasNewCursor THEN r
                   ELSE WithCursor(r, remoteRepoCursor(cursor), <<>>)
    IN  Next(performSameRepositoryRemoteReferences(w, req.repositoryID, req.commit,
                 req.remoteDumpLimit, req.limit, cursor))

\* ReferencePageResolver.handleRemoteRepoCursor
handleRemoteRepoCursor(w, req, cursor) ==
    performRemoteReferences(w, req.repositoryID, req.remoteDumpLimit, req.limit, cursor)

\* The first call of a handler's trace that the store or the bundle manager
\* fails (w.fail names the failing operations), 0 if none does.
FirstFailure(w, calls) ==
    IF \A i \in DOMAIN calls : calls[i].op \notin w.fail THEN 0
    ELSE CHOOSE i \in DOMAIN calls :
             /\ calls[i].op \in w.fail
             /\ \A j \in 1..(i - 1) : calls[j].op \notin w.fail

\* "if err != nil { return nil, Cursor{}, false, err }" after every store
\* and bundle call of the phase handlers: r is what the handler returns when
\* no call fails, and the handler stops at the first call that does.
returnCallError(w, r) ==
    LET Cut(k) == IF k = 0 THEN r
                  ELSE PageResult(<<>>, ZeroCursor, FALSE, "call failed",
                                  SubSeq(r.calls, 1, k), <<>>)
    IN  Cut(FirstFailure(w, r.calls))

\* ReferencePageResolver.dispatchCursorHandler
dispatchCursorHandler(w, req, cursor) ==
    CASE cursor.Phase = "same-dump" ->
             returnCallError(w, handleSameDumpCursor(w, req, cursor))
      [] cursor.Phase = "definition-monikers" ->
             returnCallError(w, handleDefinitionMonikersCursor(w, req, cursor))
      [] cursor.Phase = "same-repo" ->
             returnCallError(w, handleSameRepoCursor(w, req, cursor))
      [] cursor.Phase = "remote-repo" ->
             returnCallError(w, handleRemoteRepoCursor(w, req, cursor))
      [] OTHER -> PageResult(<<>>, ZeroCursor, FALSE, "malformed cursor", <<>>, <<>>)

\* What one handler invocation did, as the drivers record it.
HandlerRun(cursor, r) ==
    [phase |-> cursor.Phase, origin |-> cursor.DumpID,
     skipDumpsInBatch |-> cursor.SkipDumpsInBatch, batch |-> r.batch,
     locations |-> r.locations, calls |-> r.calls, err |-> r.err,
     hasNewCursor |-> r.hasNewCursor, cursor |-> r.cursor]

\* What a driver returns: the page, the cursor to resume from, and the
\* handler invocations it took.
DriverResult(locations, cursor, hasNewCursor, err, runs) ==
    [locations |-> locations, cursor |-> cursor, hasNewCursor |-> hasNewCursor,
     err |-> err, runs |-> runs]

\* ReferencePageResolver.resolvePage; a panic is no error value and unwinds
\* through it.
resolvePage(w, req, cursor) ==
    LET Second(r1, r2, runs) ==
            IF r2.err # "" THEN DriverResult(<<>>, ZeroCursor, FALSE, r2.err, runs)
            ELSE DriverResult(r1.locations \o r2.locations, r2.cursor,
                              r2.hasNewCursor, "", runs)
        Again(r1, r2) == Second(r1, r2, <<HandlerRun(cursor, r1), HandlerRun(r1.cursor, r2)>>)
        First(r1) ==
            IF r1.err = "panic"
            THEN DriverResult(<<>>, ZeroCursor, FALSE, "panic", <<HandlerRun(cursor, r1)>>)
            ELSE IF r1.err # ""
            THEN DriverResult(<<>>, ZeroCursor, FALSE, "", <<HandlerRun(cursor, r1)>>)
            ELSE IF r1.hasNewCursor /\ req.limit >= 0
            THEN Again(r1, dispatchCursorHandler(w, req, r1.cursor))
            ELSE DriverResult(r1.locations, r1.cursor, r1.hasNewCursor, "",
                              <<HandlerRun(cursor, r1)>>)
    IN  First(dispatchCursorHandler(w, req, cursor))

\* Server.handlePagination, the handler of the cursor's phase.
paginationHandler(w, req, limit, cursor) ==
    CASE cursor.Phase = "same-dump" ->
             returnCallError(w, performSameDumpReferences(w, limit, cursor))
      [] cursor.Phase = "definition-monikers" ->
             returnCallError(w, performDefinitionMonikersReference(w, limit, cursor))
      [] cursor.Phase = "same-repo" ->
             returnCallError(w,
                 performSameRepositoryRemoteReferences(w, req.repositoryID, req.commit,
                     req.remoteDumpLimit, limit, cursor))
      [] cursor.Phase = "remote-repo" ->
             returnCallError(w,
                 performRemoteReferences(w, req.repositoryID, req.remoteDumpLimit,
                                         limit, cursor))

\* Server.handlePagination, the makeCursor of the cursor's phase; for
\* definition-monikers it returns nil at the first moniker without package
\* information ("oops lop is wrong"), and the error of a failed
\* lookupPackageInformation is dropped ("TODO - implement"), which leaves
\* exists false.
paginationMakeCursor(w, cursor) ==
    LET Looked(r) ==
            IF ~r.exists \/ FirstFailure(w, r.calls) # 0
            THEN [cursor |-> ZeroCursor, exists |-> FALSE, calls |-> r.calls]
            ELSE [cursor |-> sameRepoCursor(cursor, cursor.Monikers[1], r.pi),
                  exists |-> TRUE, calls |-> r.calls]
    IN
    CASE cursor.Phase = "same-dump" ->
             [cursor |-> definitionMonikersCursor(cursor), exists |-> TRUE, calls |-> <<>>]
      [] cursor.Phase = "definition-monikers" ->
             IF cursor.Monikers = <<>>
             THEN [cursor |-> ZeroCursor, exists |-> FALSE, calls |-> <<>>]
             ELSE Looked(lookupPackageInformation(w, cursor.DumpID, cursor.Path,
                                                  cursor.Monikers[1]))
      [] cursor.Phase = "same-repo" ->
             [cursor |-> remoteRepoCursor(cursor), exists |-> TRUE, calls |-> <<>>]
      [] cursor.Phase = "remote-repo" ->
             [cursor |-> ZeroCursor, exists |-> FALSE, calls |-> <<>>]

\* Server.handlePagination (with its closure recur)
RECURSIVE handlePagination(_, _, _, _)
handlePagination(w, req, limit, cursor) ==
    IF cursor.Phase \notin {"same-dump", "definition-monikers", "same-repo", "remote-repo"}
    THEN DriverResult(<<>>, ZeroCursor, FALSE, "malformed cursor", <<>>)
    ELSE
      LET Recurred(plocs, plocs2) ==
              IF plocs2.err # ""
              THEN DriverResult(<<>>, ZeroCursor, FALSE, plocs2.err,
                                <<HandlerRun(cursor, plocs)>> \o plocs2.runs)
              ELSE DriverResult(plocs.locations \o plocs2.locations, plocs2.cursor,
                                plocs2.hasNewCursor, "",
                                <<HandlerRun(cursor, plocs)>> \o plocs2.runs)
          Paged(plocs) ==
              IF ~plocs.hasNewCursor \/ limit - Len(plocs.locations) <= 0
              THEN DriverResult(plocs.locations, plocs.cursor, plocs.hasNewCursor, "",
                                <<HandlerRun(cursor, plocs)>>)
              ELSE Recurred(plocs,
                       handlePagination(w, req, limit - Len(plocs.locations),
                                        plocs.cursor))
          Made(h, mk) ==
              Paged(IF mk.exists THEN WithCursor(h, mk.cursor, mk.calls)
                    ELSE [h EXCEPT !.calls = h.calls \o mk.calls])
          Handled(h) ==
              IF h.err # ""
              THEN DriverResult(<<>>, ZeroCursor, FALSE, h.err, <<HandlerRun(cursor, h)>>)
              ELSE IF h.hasNewCursor THEN Paged(h)
              ELSE Made(h, paginationMakeCursor(w, cursor))
      IN  Handled(paginationHandler(w, req, limit, cursor))

\* The remote dump limit the older getRefs hands to handlePagination.
RemoteDumpLimit == 20

\* Server.getRefs: the later revision builds a ReferencePageResolver and
\* leaves its remoteDumpLimit unset; the earlier one calls handlePagination.
getRefs(w, rev, repositoryID, commit, limit, cursor) ==
    IF rev = "resolvePage"
    THEN resolvePage(w, [repositoryID |-> repositoryID, commit |-> commit,
                         remoteDumpLimit |-> 0, limit |-> limit], cursor)
    ELSE handlePagination(w, [repositoryID |-> repositoryID, commit |-> commit,
                              remoteDumpLimit |-> RemoteDumpLimit, limit |-> limit],
                          limit, cursor)

(***************************************************************************)
(* Hover: state machine                                                    *)
(***************************************************************************)

\* The rows of one (scheme, identifier) in the definitions or references
\* table of a bundle.
MonikerRows(bundleID, modelType, identifier, rows) ==
    <<bundleID, modelType, "s", identifier>> :> rows

PackageRow(dumpID) == [scheme |-> "s", name |-> "n", version |-> "v", dump_id |-> dumpID]

HoverRoots == { <<>>, <<"r", "/">> }

LocG == InternalLocation(<<"g">>, 2, 3)
LocH == InternalLocation(<<"h">>, 5, 5)
LocD == InternalLocation(<<"d">>, 4, 4)

\* Positions a bundle may hold hover text for.
HoverKeys ==
    { <<1, <<"f">>, 1, 1>>, <<1, <<"g">>, 2, 3>>, <<1, <<"r", "/", "g">>, 2, 3>>,
      <<1, <<"h">>, 5, 5>> }

\* lsif_uploads.state of an upload that is done, and of one that is not.
UploadStates == {"completed", "processing"}

HoverWorlds ==
    { [dumps |-> { [DumpRow(1, 1, "c1", root, "Z") EXCEPT !.State = st],
                    DumpRow(2, 2, "c1", <<"q", "/">>, "Z") },
       hover |-> hv, definitions |-> defs, monikers |-> ms,
       mres |-> MonikerRows(1, "definition", "x", md)
                    @@ MonikerRows(2, "definition", "y", <<LocD>>),
       packages |-> pk] :
        root \in HoverRoots, st \in UploadStates, hv \in SUBSET HoverKeys,
        defs \in { <<>>, <<LocG>>, <<LocG, LocH>>, <<LocH, LocG>> },
        ms \in { <<>>, << <<LocalMoniker>> >>, << <<ImportMoniker>> >>,
                 << <<ImportMoniker>>, <<LocalMoniker>> >> },
        md \in { <<>>, <<LocG>> },
        pk \in { {}, {PackageRow(2)} } }

NoWorld ==
    [dumps |-> {}, hover |-> {}, definitions |-> <<>>, monikers |-> <<>>,
     mres |-> <<>>, packages |-> {}]

NoHoverCall ==
    [op |-> "none", file |-> <<>>, line |-> 0, character |-> 0, uploadID |-> 0,
     hover |-> NoHover, locations |-> <<>>, cursor |-> ZeroCursor, err |-> "",
     calls |-> <<>>]

HoverInit ==
    /\ hoverIn \in HoverWorlds
    /\ hoverOut = NoHoverCall

HoverIdle ==
    /\ hoverIn = NoWorld
    /\ hoverOut = NoHoverCall

HoverFiles == { <<"f">>, <<"r", "/", "f">> }
HoverUploads == {1, 3}

\* GET hover: Server.getHover(file, line, character, uploadID)
HoverGetHover ==
    /\ hoverOut.op = "none"
    /\ \E file \in HoverFiles, character \in {1, 2}, uploadID \in HoverUploads :
         LET r == getHover(hoverIn, file, 1, character, uploadID)
         IN  hoverOut' = [op |-> "getHover", file |-> file, line |-> 1,
                          character |-> character, uploadID |-> uploadID,
                          hover |-> r.hover, locations |-> <<>>,
                          cursor |-> ZeroCursor, err |-> r.err, calls |-> r.calls]
    /\ UNCHANGED <<hoverIn, visVars, codecVars, pagerVars, resolveVars, driverVars, dbCacheVars, simpleVars, remoteVars, gatherVars, storeVars>>

\* GET definitions: Server.getDefs(file, line, character, uploadID)
HoverGetDefs ==
    /\ hoverOut.op = "none"
    /\ \E file \in HoverFiles, character \in {1, 2}, uploadID \in HoverUploads :
         LET r == getDefs(hoverIn, file, 1, character, uploadID)
         IN  hoverOut' = [op |-> "getDefs", file |-> file, line |-> 1,
                          character |-> character, uploadID |-> uploadID,
                          hover |-> NoHover, locations |-> r.locations,
                          cursor |-> ZeroCursor, err |-> r.err, calls |-> r.calls]
    /\ UNCHANGED <<hoverIn, visVars, codecVars, pagerVars, resolveVars, driverVars, dbCacheVars, simpleVars, remoteVars, gatherVars, storeVars>>

\* GET references without a cursor: Server.makeCursor(repositoryID, commit,
\* file, line, character, uploadID, limit)
HoverMakeCursor ==
    /\ hoverOut.op = "none"
    /\ \E file \in HoverFiles, character \in {1, 2}, uploadID \in HoverUploads :
         \E r \in { makeCursor(hoverIn, 1, "c1", file, 1, character, uploadID, 1) } :
             hoverOut' = [op |-> "makeCursor", file |-> file, line |-> 1,
                          character |-> character, uploadID |-> uploadID,
                          hover |-> NoHover, locations |-> <<>>,
                          cursor |-> r.cursor, err |-> r.err, calls |-> r.calls]
    /\ UNCHANGED <<hoverIn, visVars, codecVars, pagerVars, resolveVars, driverVars, dbCacheVars, simpleVars, remoteVars, gatherVars, storeVars>>

HoverNext == HoverGetHover \/ HoverGetDefs \/ HoverMakeCursor

(***************************************************************************)
(* Reference pager: state machine                                          *)
(***************************************************************************)

MaxLimit == 2
MaxSlack == 1
MaxPages == 6

Ref1 == InternalLocation(<<"f">>, 1, 1)
Ref2 == InternalLocation(<<"f">>, 2, 1)
Ref3 == InternalLocation(<<"g">>, 3, 1)
Ref4 == InternalLocation(<<"g">>, 4, 1)

\* Repository 1 has c1 <- c2; dumps 1 (the origin) and 3 sit on c2, dump 2 on
\* c1; dumps 4 and 5 belong to repositories 2 and 3.  No two dumps of a
\* repository share a root.
PagerDumps ==
    { DumpRow(1, 1, "c2", <<"a", "/">>, "Z"), DumpRow(2, 1, "c1", <<"b", "/">>, "Z"),
      DumpRow(3, 1, "c2", <<"c", "/">>, "Z"), DumpRow(4, 2, "c1", <<>>, "Z"),
      DumpRow(5, 3, "c1", <<"a", "/">>, "Z") }

PagerCommits ==
    { CommitRow(1, "c1", NoCommit, 1), CommitRow(2, "c2", "c1", 1),
      CommitRow(3, "c1", NoCommit, 2), CommitRow(4, "c1", NoCommit, 3) }

PagerWorlds ==
    { [dumps |-> PagerDumps, commits |-> PagerCommits, tip |-> {2, 3, 4, 5},
       hover |-> {}, definitions |-> <<>>,
       references |-> refs, monikers |-> ms,
       mres |-> MonikerRows(1, "reference", "x", mx)
                @@ MonikerRows(2, "reference", "y", m2)
                @@ MonikerRows(3, "reference", "y", <<LocD>>)
                @@ MonikerRows(4, "reference", "y", <<LocG>>),
       packages |-> pk, refIndex |-> ri, slack |-> slack, fail |-> {}] :
        refs \in { <<>>, <<Ref1>>, <<Ref1, Ref2>>, <<Ref1, Ref2, Ref3>> },
        ms \in { <<>>, << <<LocalMoniker>> >>, << <<ImportMoniker>> >>,
                 << <<LocalMoniker, ImportMoniker>> >> },
        mx \in { <<>>, <<Ref1>>, <<Ref4>> },
        m2 \in { <<>>, <<LocG, LocH>> },
        pk \in { {}, {PackageRow(4)} },
        ri \in { {}, {1, 2, 3, 4, 5}, {2, 4} },
        slack \in 0..MaxSlack }

Revisions == {"resolvePage", "handlePagination"}

\* The reference query: repositoryId, commit, path, line, character, limit.
PagerQuery ==
    [repositoryID |-> 1, commit |-> "c2", file |-> <<"a", "/", "f">>,
     line |-> 1, character |-> 1]

NoPager ==
    [status |-> "new", cursor |-> ZeroCursor, pages |-> <<>>, chain |-> <<>>,
     runs |-> <<>>]

PagerInit ==
    /\ pagerIn \in [w : PagerWorlds, rev : Revisions, limit : 1..MaxLimit]
    /\ pagerOut = NoPager

PagerIdle ==
    /\ pagerIn = [w |-> NoWorld, rev |-> "", limit |-> 0]
    /\ pagerOut = NoPager

\* The first request carries no cursor: Server.decodeCursor makes the seed.
PagerMakeCursor ==
    /\ pagerOut.status = "new"
    /\ \E uploadID \in {1, 9} :
         \E r \in { makeCursor(pagerIn.w, PagerQuery.repositoryID, PagerQuery.commit,
                               PagerQuery.file, PagerQuery.line, PagerQuery.character,
                               uploadID, pagerIn.limit) } :
             pagerOut' = [pagerOut EXCEPT
                          !.status = IF r.err = "" THEN "open" ELSE "error",
                          !.cursor = r.cursor,
                          !.chain = IF r.err = "" THEN <<r.cursor>> ELSE <<>>]
    /\ UNCHANGED <<pagerIn, visVars, codecVars, hoverVars, resolveVars, driverVars, dbCacheVars, simpleVars, remoteVars, gatherVars, storeVars>>

\* What a page adds to the record of the query: r is what getRefs returned.
PagerServed(r) ==
    IF r.err # ""
    THEN [pagerOut EXCEPT !.status = IF r.err = "panic" THEN "panic" ELSE "error",
                          !.runs = pagerOut.runs \o r.runs]
    ELSE [status |-> IF r.hasNewCursor THEN "open" ELSE "done",
          cursor |-> r.cursor,
          pages |-> Append(pagerOut.pages, r.locations),
          chain |-> IF r.hasNewCursor THEN Append(pagerOut.chain, r.cursor)
                    ELSE pagerOut.chain,
          runs |-> pagerOut.runs \o r.runs]

\* GET references, served by ReferencePageResolver.resolvePage
PagerResolvePage ==
    /\ pagerOut.status = "open"
    /\ pagerIn.rev = "resolvePage"
    /\ Len(pagerOut.pages) < MaxPages
    /\ \E r \in { getRefs(pagerIn.w, "resolvePage", PagerQuery.repositoryID,
                           PagerQuery.commit, pagerIn.limit, pagerOut.cursor) } :
         pagerOut' = PagerServed(r)
    /\ UNCHANGED <<pagerIn, visVars, codecVars, hoverVars, resolveVars, driverVars, dbCacheVars, simpleVars, remoteVars, gatherVars, storeVars>>

\* GET references, served by Server.handlePagination
PagerHandlePagination ==
    /\ pagerOut.status = "open"
    /\ pagerIn.rev = "handlePagination"
    /\ Len(pagerOut.pages) < MaxPages
    /\ \E r \in { getRefs(pagerIn.w, "handlePagination", PagerQuery.repositoryID,
                           PagerQuery.commit, pagerIn.limit, pagerOut.cursor) } :
         pagerOut' = PagerServed(r)
    /\ UNCHANGED <<pagerIn, visVars, codecVars, hoverVars, resolveVars, driverVars, dbCacheVars, simpleVars, remoteVars, gatherVars, storeVars>>

PagerNext == PagerMakeCursor \/ PagerResolvePage \/ PagerHandlePagination

(***************************************************************************)
(* Location resolvers: state machine                                       *)
(***************************************************************************)

MaxLocations == 2

ResolveDumpIDs == {1, 2, 9}

\* The lsif_uploads table: dump 1 under a root or at the top, dump 2 under q/.
ResolveWorlds ==
    { [dumps |-> { DumpRow(1, 1, "c1", root, "Z"), DumpRow(2, 2, "c1", <<"q", "/">>, "Z") }] :
        root \in HoverRoots }

\* The locations a bundle may answer with, with the id of the bundle.
BundleLocations ==
    { [DumpID |-> id, Path |-> l.Path, Range |-> l.Range] :
        id \in ResolveDumpIDs, l \in {LocG, LocH} }

LocationLists ==
    UNION { [1..n -> BundleLocations] : n \in 0..MaxLocations }

NoResolve == [op |-> "none", locations |-> <<>>]

ResolveInit ==
    /\ resolveIn \in { [w |-> w, dump |-> d, locations |-> ls] :
                          w \in ResolveWorlds, d \in UNION { x.dumps : x \in ResolveWorlds },
                          ls \in LocationLists }
    /\ resolveIn.dump \in resolveIn.w.dumps
    /\ resolveOut = NoResolve

ResolveIdle ==
    /\ resolveIn = [w |-> NoWorld, dump |-> ZeroDump, locations |-> <<>>]
    /\ resolveOut = NoResolve

\* resolveLocations(dump, locations) on the answer of the dump's bundle, as
\* getDefsRaw and the reference phases call it.
ResolveSingleDump ==
    /\ resolveOut.op = "none"
    /\ resolveOut' =
           [op |-> "resolveLocations",
            locations |-> resolveLocations(resolveIn.dump,
                addBundleIDToLocations(resolveIn.dump.ID, resolveIn.locations))]
    /\ UNCHANGED <<resolveIn, visVars, codecVars, hoverVars, pagerVars, driverVars, dbCacheVars, simpleVars, remoteVars, gatherVars, storeVars>>

\* Server.resolveLocations(locations) on locations of several bundles.
ResolveMultiDump ==
    /\ resolveOut.op = "none"
    /\ resolveOut' =
           [op |-> "Server.resolveLocations",
            locations |-> Server_resolveLocations(resolveIn.w, resolveIn.locations)]
    /\ UNCHANGED <<resolveIn, visVars, codecVars, hoverVars, pagerVars, driverVars, dbCacheVars, simpleVars, remoteVars, gatherVars, storeVars>>

\* Server.resolveLocations on what lookupMoniker returns for the rows of a
\* defining dump, as getDefsRaw and performDefinitionMonikersReference
\* compose them.
ResolveLookupMoniker ==
    /\ resolveOut.op = "none"
    /\ resolveOut' =
           [op |-> "lookupMoniker",
            locations |-> Server_resolveLocations(resolveIn.w,
                lookupMonikerLocations(resolveIn.dump,
                    addBundleIDToLocations(resolveIn.dump.ID, resolveIn.locations)))]
    /\ UNCHANGED <<resolveIn, visVars, codecVars, hoverVars, pagerVars, driverVars, dbCacheVars, simpleVars, remoteVars, gatherVars, storeVars>>

ResolveNext == ResolveSingleDump \/ ResolveMultiDump \/ ResolveLookupMoniker

(***************************************************************************)
(* Reference request carrying a client cursor: state machine               *)
(***************************************************************************)

MaxFollow == 8

\* Phase tags no handler is registered for.
MalformedPhases == {"", "same-file"}

\* An exported moniker that carries package information.
PackagedMoniker == MonikerData("export", "s", "x", "p")

\* The store and bundle operations that fail during the request.
FailingCalls ==
    { {}, {"GetDumpByID"}, {"References"}, {"PackageInformation"},
      {"CountSameRepoPackageRefs"} }

DriverWorlds ==
    { w \in PagerWorlds :
        /\ w.slack = MaxSlack
        /\ Len(w.references) \in {0, 2}
        /\ w.refIndex # {2, 4} }

\* The cursors a client may send for the query: the seed, the seed moved to
\* the definition-monikers phase, either with another moniker list, the
\* same-repo and remote-repo cursors that follow it for the imported moniker,
\* same-repo cursors inside a batch, cursors whose origin or batch names a
\* dump deleted since (id 9), and the seed under a phase tag that names no
\* handler.
ClientCursors(w, limit) ==
    LET Remote(c) ==
            { c, remoteRepoCursor(c),
              [c EXCEPT !.DumpIDs = <<2, 3>>, !.SkipResultsInDump = 1],
              [c EXCEPT !.DumpIDs = <<2>>, !.SkipDumpsWhenBatching = 1,
                        !.TotalDumpsWhenBatching = 2, !.SkipResultsInDump = 1],
              [c EXCEPT !.DumpIDs = <<9, 2>>, !.SkipResultsInDump = 1],
              [remoteRepoCursor(c) EXCEPT !.DumpIDs = <<4, 9>>] }
        Variants(seed) ==
            { seed, [seed EXCEPT !.DumpID = 9], definitionMonikersCursor(seed),
              [definitionMonikersCursor(seed) EXCEPT !.Monikers = <<PackagedMoniker>>] }
            \cup Remote(sameRepoCursor(seed, ImportMoniker,
                                       PackageInformation(w, seed.DumpID, seed.Path,
                                           ImportMoniker.PackageInformationID)))
            \cup { [seed EXCEPT !.Phase = p] : p \in MalformedPhases }
    IN  Variants(makeCursor(w, PagerQuery.repositoryID, PagerQuery.commit,
                            PagerQuery.file, PagerQuery.line, PagerQuery.character,
                            1, limit).cursor)

\* The latest response along the cursor chain of the request: the cursor it
\* answered, what it returned, and the handler invocations it took.
Followed(pages, request, r) ==
    [pages |-> pages, request |-> request, cursor |-> r.cursor,
     hasNewCursor |-> r.hasNewCursor, locations |-> r.locations, err |-> r.err,
     calls |-> Len(r.runs)]

NoDriver ==
    [op |-> "none", locations |-> <<>>, cursor |-> ZeroCursor,
     hasNewCursor |-> FALSE, err |-> "", runs |-> <<>>,
     follow |-> Followed(0, ZeroCursor,
                         [cursor |-> ZeroCursor, hasNewCursor |-> FALSE,
                          locations |-> <<>>, err |-> "", runs |-> <<>>])]

DriverInit ==
    /\ \E pw \in DriverWorlds, f \in FailingCalls, rev \in Revisions, limit \in 1..MaxLimit :
         \E c \in ClientCursors(pw, limit) :
             driverIn = [w |-> [pw EXCEPT !.fail = f], rev |-> rev, limit |-> limit,
                         cursor |-> c]
    /\ driverOut = NoDriver

DriverIdle ==
    /\ driverIn = [w |-> NoWorld, rev |-> "", limit |-> 0, cursor |-> ZeroCursor]
    /\ driverOut = NoDriver

\* What the driver returned for the request.
DriverReturned(op, r) ==
    [op |-> op, locations |-> r.locations, cursor |-> r.cursor,
     hasNewCursor |-> r.hasNewCursor, err |-> r.err, runs |-> r.runs,
     follow |-> Followed(1, driverIn.cursor, r)]

\* GET references with a cursor, served by ReferencePageResolver.resolvePage
DriverResolvePage ==
    /\ driverOut.op = "none"
    /\ driverIn.rev = "resolvePage"
    /\ \E r \in { getRefs(driverIn.w, "resolvePage", PagerQuery.repositoryID,
                           PagerQuery.commit, driverIn.limit, driverIn.cursor) } :
         driverOut' = DriverReturned("resolvePage", r)
    /\ UNCHANGED <<driverIn, visVars, codecVars, hoverVars, pagerVars, resolveVars, dbCacheVars, simpleVars, remoteVars, gatherVars, storeVars>>

\* GET references with a cursor, served by Server.handlePagination
DriverHandlePagination ==
    /\ driverOut.op = "none"
    /\ driverIn.rev = "handlePagination"
    /\ \E r \in { getRefs(driverIn.w, "handlePagination", PagerQuery.repositoryID,
                           PagerQuery.commit, driverIn.limit, driverIn.cursor) } :
         driverOut' = DriverReturned("handlePagination", r)
    /\ UNCHANGED <<driverIn, visVars, codecVars, hoverVars, pagerVars, resolveVars, dbCacheVars, simpleVars, remoteVars, gatherVars, storeVars>>

\* The client asks for the next page with the cursor of the latest response.
DriverFollowCursor ==
    /\ driverOut.op # "none"
    /\ driverOut.follow.err = ""
    /\ driverOut.follow.hasNewCursor
    /\ driverOut.follow.pages < MaxFollow
    /\ \E r \in { getRefs(driverIn.w, driverIn.rev, PagerQuery.repositoryID,
                           PagerQuery.commit, driverIn.limit, driverOut.follow.cursor) } :
         driverOut' = [driverOut EXCEPT
                          !.follow = Followed(driverOut.follow.pages + 1,
                                              driverOut.follow.cursor, r)]
    /\ UNCHANGED <<driverIn, visVars, codecVars, hoverVars, pagerVars, resolveVars, dbCacheVars, simpleVars, remoteVars, gatherVars, storeVars>>

DriverNext == DriverResolvePage \/ DriverHandlePagination \/ DriverFollowCursor

(***************************************************************************)
(* Bundle manager, DatabaseCache: state machine                            *)
(***************************************************************************)

MaxDatabases == 3
MaxSignals == 1

\* The goroutines that call WithDatabase, and the keys they ask for.
DbGoroutines == {1, 2}
DbKeys == {"foo", "bar"}

\* The two revisions of DatabaseCache: getCacheEntry under cacheMu over
\* lru.Cache, and memcache.Cache.GetOrCreate.
DbRevisions == {"getCacheEntry", "GetOrCreate"}

\* &databaseCacheEntry{db: db} after entry.wg.Add(1); closer is the position
\* of the goroutine once.Do starts, closes counts the calls of db.Close.
NewEntry(key) ==
    [key |-> key, wg |-> 1, once |-> FALSE, closer |-> "none", closes |-> 0,
     signals |-> 0]

\* onDatabaseCacheEvict / onEvict: entry.once.Do(func() { go ... })
onEvict(entry) ==
    IF entry.once
    THEN [entry EXCEPT !.signals = entry.signals + 1]
    ELSE [entry EXCEPT !.once = TRUE, !.closer = "wait",
                       !.signals = entry.signals + 1]

\* The position in the lru list of the entry cached at key, 0 if none.
CachedAt(c, key) ==
    IF \E i \in DOMAIN c.cache : c.entries[c.cache[i]].key = key
    THEN CHOOSE i \in DOMAIN c.cache : c.entries[c.cache[i]].key = key
    ELSE 0

\* lru.Cache.Get on a hit: the entry becomes the most recent one.
MoveToFront(cache, i) ==
    <<cache[i]>> \o SubSeq(cache, 1, i - 1) \o SubSeq(cache, i + 1, Len(cache))

\* lru.Cache.Add of a new entry: the oldest entry leaves when the cache is
\* over its size, and the evict callback runs on it.
CacheAdd(c, size, entry) ==
    LET e == Len(c.entries) + 1
        entries == Append(c.entries, entry)
        cache == <<e>> \o c.cache
    IN  IF Len(cache) > size
        THEN [c EXCEPT !.cache = SubSeq(cache, 1, size),
                       !.entries = [entries EXCEPT ![cache[Len(cache)]] =
                                        onEvict(entries[cache[Len(cache)]])]]
        ELSE [c EXCEPT !.cache = cache, !.entries = entries]

\* The goroutine g runs the handler with the database of entry e.
Handling(c, g, e) == [c EXCEPT !.procs[g] = [pc |-> "handler", entry |-> e]]

DbCacheInit ==
    /\ dbCacheIn \in [rev : DbRevisions, size : {1, 2}]
    /\ dbCache = [cache |-> <<>>, entries |-> <<>>,
                  procs |-> [g \in DbGoroutines |-> [pc |-> "idle", entry |-> 0]]]

DbCacheIdle ==
    /\ dbCacheIn = [rev |-> "", size |-> 0]
    /\ dbCache = [cache |-> <<>>, entries |-> <<>>, procs |-> <<>>]

\* DatabaseCache.WithDatabase up to the call of the handler, by
\* getCacheEntry: on a hit entry.wg.Add(1), on a miss a new entry.
DbGetCacheEntry ==
    /\ dbCacheIn.rev = "getCacheEntry"
    /\ \E g \in DbGoroutines, key \in DbKeys :
         /\ dbCache.procs[g].pc = "idle"
         /\ \E i \in { CachedAt(dbCache, key) } :
              IF i # 0
              THEN dbCache' =
                     Handling([dbCache EXCEPT
                                  !.cache = MoveToFront(dbCache.cache, i),
                                  !.entries[dbCache.cache[i]].wg =
                                      dbCache.entries[dbCache.cache[i]].wg + 1],
                              g, dbCache.cache[i])
              ELSE /\ Len(dbCache.entries) < MaxDatabases
                   /\ dbCache' = Handling(CacheAdd(dbCache, dbCacheIn.size, NewEntry(key)),
                                          g, Len(dbCache.entries) + 1)
    /\ UNCHANGED <<dbCacheIn, visVars, codecVars, hoverVars, pagerVars, resolveVars, driverVars, simpleVars, remoteVars, gatherVars, storeVars>>

\* DatabaseCache.WithDatabase up to the call of the handler, by
\* cache.GetOrCreate: the factory, and with it entry.wg.Add(1), runs on a
\* miss only.
DbGetOrCreate ==
    /\ dbCacheIn.rev = "GetOrCreate"
    /\ \E g \in DbGoroutines, key \in DbKeys :
         /\ dbCache.procs[g].pc = "idle"
         /\ \E i \in { CachedAt(dbCache, key) } :
              IF i # 0
              THEN dbCache' =
                     Handling([dbCache EXCEPT !.cache = MoveToFront(dbCache.cache, i)],
                              g, dbCache.cache[i])
              ELSE /\ Len(dbCache.entries) < MaxDatabases
                   /\ dbCache' = Handling(CacheAdd(dbCache, dbCacheIn.size, NewEntry(key)),
                                          g, Len(dbCache.entries) + 1)
    /\ UNCHANGED <<dbCacheIn, visVars, codecVars, hoverVars, pagerVars, resolveVars, driverVars, simpleVars, remoteVars, gatherVars, storeVars>>

\* The handler returns and the deferred entry.wg.Done() runs; a counter that
\* goes below zero panics ("sync: negative WaitGroup counter") and stays
\* below zero.
DbHandlerReturn ==
    /\ \E g \in DbGoroutines :
         /\ dbCache.procs[g].pc = "handler"
         /\ \E e \in { dbCache.procs[g].entry } :
              dbCache' = [dbCache EXCEPT
                             !.entries[e].wg = dbCache.entries[e].wg - 1,
                             !.procs[g] = [pc |-> IF dbCache.entries[e].wg - 1 < 0
                                                  THEN "panic" ELSE "idle",
                                           entry |-> 0]]
    /\ UNCHANGED <<dbCacheIn, visVars, codecVars, hoverVars, pagerVars, resolveVars, driverVars, simpleVars, remoteVars, gatherVars, storeVars>>

\* The goroutine of the evict callback: entry.wg.Wait() returns.
DbCloserWait ==
    /\ \E e \in DOMAIN dbCache.entries :
         /\ dbCache.entries[e].closer = "wait"
         /\ dbCache.entries[e].wg = 0
         /\ dbCache' = [dbCache EXCEPT !.entries[e].closer = "close"]
    /\ UNCHANGED <<dbCacheIn, visVars, codecVars, hoverVars, pagerVars, resolveVars, driverVars, simpleVars, remoteVars, gatherVars, storeVars>>

\* The goroutine of the evict callback: entry.db.Close()
DbCloserClose ==
    /\ \E e \in DOMAIN dbCache.entries :
         /\ dbCache.entries[e].closer = "close"
         /\ dbCache' = [dbCache EXCEPT !.entries[e].closer = "done",
                                       !.entries[e].closes = dbCache.entries[e].closes + 1]
    /\ UNCHANGED <<dbCacheIn, visVars, codecVars, hoverVars, pagerVars, resolveVars, driverVars, simpleVars, remoteVars, gatherVars, storeVars>>

\* The cache signals the eviction of an entry that has left it once more.
DbEvictSignal ==
    /\ \E e \in DOMAIN dbCache.entries :
         /\ dbCache.entries[e].once
         /\ dbCache.entries[e].signals <= MaxSignals
         /\ dbCache' = [dbCache EXCEPT !.entries[e] = onEvict(dbCache.entries[e])]
    /\ UNCHANGED <<dbCacheIn, visVars, codecVars, hoverVars, pagerVars, resolveVars, driverVars, simpleVars, remoteVars, gatherVars, storeVars>>

DbCacheNext ==
    \/ DbGetCacheEntry
    \/ DbGetOrCreate
    \/ DbHandlerReturn
    \/ DbCloserWait
    \/ DbCloserClose
    \/ DbEvictSignal

(***************************************************************************)
(* Bundle manager, simpleCache: state machine                              *)
(***************************************************************************)

MaxCallers == 3

\* The goroutines that call simpleCache.Get, and the keys they ask for.
ScGoroutines == 1..MaxCallers
ScKeys == {"test", "bonk"}

\* c.cache.Get(key): the position of the key in the lru list, 0 on a miss.
cacheGet_miss(c, key) == 0

cacheGet(c, key) ==
    IF \E i \in DOMAIN c.cache : c.cache[i].key = key
    THEN CHOOSE i \in DOMAIN c.cache : c.cache[i].key = key
    ELSE 0

\* c.cache.Add(key, value): the oldest entry leaves a full list.
cacheAdd(c, size, key, value) ==
    SubSeq(<<[key |-> key, value |-> value]>> \o c.cache, 1,
           Min(size, Len(c.cache) + 1))

\* A goroutine that has not called Get.
ScIdle == [pc |-> "idle", key |-> "", value |-> 0, err |-> FALSE]

SimpleCacheInit ==
    /\ simpleIn \in [size : {1, 2}]
    /\ simpleCache = [cacheMu |-> 0, cache |-> <<>>,
                      procs |-> [g \in ScGoroutines |-> ScIdle],
                      calls |-> [k \in ScKeys |-> 0],
                      failed |-> [k \in ScKeys |-> 0]]

SimpleCacheIdle ==
    /\ simpleIn = [size |-> 0]
    /\ simpleCache = [cacheMu |-> 0, cache |-> <<>>, procs |-> <<>>,
                      calls |-> <<>>, failed |-> <<>>]

\* A goroutine calls simpleCache.Get(key, factory) and reaches cacheMu.Lock().
ScGet ==
    /\ \E g \in ScGoroutines, key \in ScKeys :
         /\ simpleCache.procs[g].pc = "idle"
         /\ simpleCache' = [simpleCache EXCEPT !.procs[g].pc = "lock",
                                               !.procs[g].key = key]
    /\ UNCHANGED <<simpleIn, visVars, codecVars, hoverVars, pagerVars, resolveVars, driverVars, dbCacheVars, remoteVars, gatherVars, storeVars>>

\* c.cacheMu.Lock() returns.
ScLock ==
    /\ simpleCache.cacheMu = 0
    /\ \E g \in ScGoroutines :
         /\ simpleCache.procs[g].pc = "lock"
         /\ simpleCache' = [simpleCache EXCEPT !.cacheMu = g, !.procs[g].pc = "locked"]
    /\ UNCHANGED <<simpleIn, visVars, codecVars, hoverVars, pagerVars, resolveVars, driverVars, dbCacheVars, remoteVars, gatherVars, storeVars>>

\* The key is cached: return value, nil (and the deferred Unlock).
ScHit ==
    /\ \E g \in ScGoroutines :
         /\ simpleCache.procs[g].pc = "locked"
         /\ \E i \in { cacheGet(simpleCache, simpleCache.procs[g].key) } :
              /\ i # 0
              /\ simpleCache' =
                   [simpleCache EXCEPT
                       !.cacheMu = 0,
                       !.cache = MoveToFront(simpleCache.cache, i),
                       !.procs[g].pc = "returned",
                       !.procs[g].value = simpleCache.cache[i].value]
    /\ UNCHANGED <<simpleIn, visVars, codecVars, hoverVars, pagerVars, resolveVars, driverVars, dbCacheVars, remoteVars, gatherVars, storeVars>>

\* The key is not cached and factory() returns a value; the n-th call of the
\* factory for a key produces the value n.
ScFactory ==
    /\ \E g \in ScGoroutines :
         /\ simpleCache.procs[g].pc = "locked"
         /\ cacheGet(simpleCache, simpleCache.procs[g].key) = 0
         /\ \E key \in { simpleCache.procs[g].key } :
              simpleCache' =
                  [simpleCache EXCEPT
                      !.calls[key] = simpleCache.calls[key] + 1,
                      !.procs[g].pc = "made",
                      !.procs[g].value = simpleCache.calls[key] + 1]
    /\ UNCHANGED <<simpleIn, visVars, codecVars, hoverVars, pagerVars, resolveVars, driverVars, dbCacheVars, remoteVars, gatherVars, storeVars>>

\* The key is not cached and factory() returns an error: return nil, err
\* (and the deferred Unlock); nothing is added to the cache.
ScFactoryError ==
    /\ \E g \in ScGoroutines :
         /\ simpleCache.procs[g].pc = "locked"
         /\ cacheGet(simpleCache, simpleCache.procs[g].key) = 0
         /\ \E key \in { simpleCache.procs[g].key } :
              simpleCache' =
                  [simpleCache EXCEPT
                      !.cacheMu = 0,
                      !.calls[key] = simpleCache.calls[key] + 1,
                      !.failed[key] = simpleCache.failed[key] + 1,
                      !.procs[g].pc = "returned",
                      !.procs[g].err = TRUE]
    /\ UNCHANGED <<simpleIn, visVars, codecVars, hoverVars, pagerVars, resolveVars, driverVars, dbCacheVars, remoteVars, gatherVars, storeVars>>

\* c.cache.Add(key, value); return value, nil (and the deferred Unlock).
ScAdd ==
    /\ \E g \in ScGoroutines :
         /\ simpleCache.procs[g].pc = "made"
         /\ simpleCache' =
              [simpleCache EXCEPT
                  !.cacheMu = 0,
                  !.cache = cacheAdd(simpleCache, simpleIn.size,
                                     simpleCache.procs[g].key,
                                     simpleCache.procs[g].value),
                  !.procs[g].pc = "returned"]
    /\ UNCHANGED <<simpleIn, visVars, codecVars, hoverVars, pagerVars, resolveVars, driverVars, dbCacheVars, remoteVars, gatherVars, storeVars>>

SimpleCacheNext == ScGet \/ ScLock \/ ScHit \/ ScFactory \/ ScFactoryError \/ ScAdd

(***************************************************************************)
(* Same-repo and remote-repo phases: state machine                         *)
(***************************************************************************)

MaxResume == 3

\* The batch sizes requests come with: the ReferencePageResolver's unset
\* remoteDumpLimit, a batch of one dump, and handlePagination's limit.
RemoteDumpLimits == {0, 1, RemoteDumpLimit}

\* Stores whose reference index names dumps of the origin's repository and
\* of other repositories; dumps 2 and 4 hold the rows `many` for the
\* moniker, dumps 3 and 5 the rows `few`; dump 5 is visible at the tip of its
\* repository or not.
RemoteWorlds ==
    { [dumps |-> PagerDumps, commits |-> PagerCommits, tip |-> tip,
       hover |-> {}, definitions |-> <<>>, references |-> <<>>, monikers |-> <<>>,
       mres |-> MonikerRows(2, "reference", "y", many)
                @@ MonikerRows(3, "reference", "y", few)
                @@ MonikerRows(4, "reference", "y", many)
                @@ MonikerRows(5, "reference", "y", few),
       packages |-> {}, refIndex |-> ri, slack |-> 0, fail |-> {}] :
        many \in { <<>>, <<LocG, LocH>>, <<LocG, LocH, LocD>> },
        few \in { <<>>, <<LocD>> },
        ri \in { {1, 2, 3, 4, 5}, {2, 4}, {3, 5} },
        tip \in { {2, 3, 4, 5}, {2, 3, 4} } }

\* Well-formed cursors of the two phases for the moniker s:y of package n v.
RemoteCursors ==
    { [ZeroCursor EXCEPT !.Phase = p, !.DumpID = 1, !.Scheme = "s",
           !.Identifier = "y", !.Name = "n", !.Version = "v", !.DumpIDs = ids,
           !.SkipDumpsWhenBatching = ct[1], !.TotalDumpsWhenBatching = ct[2],
           !.SkipDumpsInBatch = b, !.SkipResultsInDump = k] :
        p \in {"same-repo", "remote-repo"},
        ids \in { <<>>, <<1, 2, 3>>, <<3, 2>>, <<4, 5>> },
        ct \in { <<0, 0>>, <<1, 2>>, <<2, 2>> },
        b \in 0..1, k \in 0..2 }

NoRemote == [more |-> FALSE, cursor |-> ZeroCursor, runs |-> <<>>]

RemoteInit ==
    /\ remoteIn \in [w : RemoteWorlds, remoteDumpLimit : RemoteDumpLimits,
                     limit : 1..MaxLimit, cursor : RemoteCursors]
    /\ remoteOut = [NoRemote EXCEPT !.more = TRUE, !.cursor = remoteIn.cursor]

RemoteIdle ==
    /\ remoteIn = [w |-> NoWorld, remoteDumpLimit |-> 0, limit |-> 0, cursor |-> ZeroCursor]
    /\ remoteOut = NoRemote

\* What one call of a phase function was handed and what it returned.
RemoteRun(cursor, r) ==
    [in |-> cursor, locations |-> r.locations, hasNewCursor |-> r.hasNewCursor,
     cursor |-> r.cursor, err |-> r.err, calls |-> r.calls, batch |-> r.batch]

RemoteReturned(r) ==
    [more |-> r.hasNewCursor, cursor |-> r.cursor,
     runs |-> Append(remoteOut.runs, RemoteRun(remoteOut.cursor, r))]

\* performSameRepositoryRemoteReferences on the cursor the chain stands at
RemotePerformSameRepository ==
    /\ remoteOut.more
    /\ Len(remoteOut.runs) < MaxResume
    /\ remoteOut.cursor.Phase = "same-repo"
    /\ \E r \in { performSameRepositoryRemoteReferences(remoteIn.w,
                      PagerQuery.repositoryID, PagerQuery.commit,
                      remoteIn.remoteDumpLimit, remoteIn.limit, remoteOut.cursor) } :
         remoteOut' = RemoteReturned(r)
    /\ UNCHANGED <<remoteIn, visVars, codecVars, hoverVars, pagerVars, resolveVars, driverVars, dbCacheVars, simpleVars, gatherVars, storeVars>>

\* performRemoteReferences on the cursor the chain stands at
RemotePerformRemote ==
    /\ remoteOut.more
    /\ Len(remoteOut.runs) < MaxResume
    /\ remoteOut.cursor.Phase = "remote-repo"
    /\ \E r \in { performRemoteReferences(remoteIn.w, PagerQuery.repositoryID,
                      remoteIn.remoteDumpLimit, remoteIn.limit, remoteOut.cursor) } :
         remoteOut' = RemoteReturned(r)
    /\ UNCHANGED <<remoteIn, visVars, codecVars, hoverVars, pagerVars, resolveVars, driverVars, dbCacheVars, simpleVars, gatherVars, storeVars>>

RemoteNext == RemotePerformSameRepository \/ RemotePerformRemote

(***************************************************************************)
(* gatherPackageReferences: state machine of its loop                      *)
(***************************************************************************)

MaxOffset == 2
MaxBatch == 2
MaxTotal == 3

\* The pages a pager may answer one call with: up to two reference rows.
GatherPages ==
    { <<>> } \cup { <<[DumpID |-> d]>> : d \in {2, 3} }
             \cup { <<[DumpID |-> 2], [DumpID |-> 3]>> }

\* "var refs []db.Reference; newOffset := offset"; rows counts the reference
\* rows the pager handed out, emptyPage tells the break was taken.
GatherInit ==
    /\ gatherIn \in [identifier : {"y"}, offset : 0..MaxOffset, limit : 0..MaxBatch,
                     totalCount : 0..MaxTotal]
    /\ gatherOut = [status |-> "loop", refs |-> <<>>, newOffset |-> gatherIn.offset,
                    err |-> "", rows |-> 0, pages |-> 0, emptyPage |-> FALSE]

GatherIdle ==
    /\ gatherIn = [identifier |-> "", offset |-> 0, limit |-> 0, totalCount |-> 0]
    /\ gatherOut = [status |-> "idle", refs |-> <<>>, newOffset |-> 0, err |-> "",
                    rows |-> 0, pages |-> 0, emptyPage |-> FALSE]

\* for len(refs) < limit && newOffset < totalCount
GatherLoopCondition ==
    /\ gatherOut.status = "loop"
    /\ Len(gatherOut.refs) < gatherIn.limit
    /\ gatherOut.newOffset < gatherIn.totalCount

\* One iteration: the pager answers pager(newOffset) with a page that holds
\* rows, and the filtered rows and the scanned count are added.
GatherPage ==
    /\ GatherLoopCondition
    /\ \E page \in GatherPages \ { <<>> } :
         \E f \in { applyBloomFilter(page, gatherIn.identifier,
                                     gatherIn.limit - Len(gatherOut.refs)) } :
           gatherOut' = [gatherOut EXCEPT !.refs = @ \o f.filtered,
                                          !.newOffset = @ + f.scanned,
                                          !.rows = @ + Len(page),
                                          !.pages = @ + 1]
    /\ UNCHANGED <<gatherIn, visVars, codecVars, hoverVars, pagerVars, resolveVars, driverVars, dbCacheVars, simpleVars, remoteVars, storeVars>>

\* The pager answers with an empty page: break, then return.
GatherEmptyPage ==
    /\ GatherLoopCondition
    /\ gatherOut' = [gatherOut EXCEPT !.status = "returned", !.pages = @ + 1,
                                      !.emptyPage = TRUE]
    /\ UNCHANGED <<gatherIn, visVars, codecVars, hoverVars, pagerVars, resolveVars, driverVars, dbCacheVars, simpleVars, remoteVars, storeVars>>

\* The pager fails: return nil, 0, err
GatherPagerError ==
    /\ GatherLoopCondition
    /\ gatherOut' = [gatherOut EXCEPT !.status = "returned", !.refs = <<>>,
                                      !.newOffset = 0, !.err = "call failed",
                                      !.pages = @ + 1]
    /\ UNCHANGED <<gatherIn, visVars, codecVars, hoverVars, pagerVars, resolveVars, driverVars, dbCacheVars, simpleVars, remoteVars, storeVars>>

\* The loop condition is false: return refs, newOffset, nil
GatherReturn ==
    /\ gatherOut.status = "loop"
    /\ ~GatherLoopCondition
    /\ gatherOut' = [gatherOut EXCEPT !.status = "returned"]
    /\ UNCHANGED <<gatherIn, visVars, codecVars, hoverVars, pagerVars, resolveVars, driverVars, dbCacheVars, simpleVars, remoteVars, storeVars>>

GatherNext == GatherPage \/ GatherEmptyPage \/ GatherPagerError \/ GatherReturn

(***************************************************************************)
(* Metadata store: writes to lsif_uploads                                  *)
(***************************************************************************)

\* A row of lsif_uploads with the columns the write paths touch.
UploadRow(i, r, c, root, ix, state, vis) ==
    [ID |-> i, RepositoryID |-> r, Commit |-> c, Root |-> root, Indexer |-> ix,
     State |-> state, VisibleAtTip |-> vis]

\* The view lsif_dumps: the uploads whose conversion completed.
lsif_dumps(uploads) == { u \in uploads : u.State = "completed" }

\* dbutil.Transaction(ctx, db, f): what the database holds when the call
\* returns. `committed` is what other connections wrote or see, `txState`
\* what the statements run on tx left behind; the transaction commits when f
\* returns nil and rolls back otherwise.
Transaction(committed, txState, err) ==
    IF err = "" THEN txState ELSE committed

AncestorRow(c) ==
    [id |-> c.id, commit |-> c.commit, parent |-> c.parent_commit,
     repository_id |-> c.repository_id]

\* ancestorLineage: the non-recursive term.
AncestorSeed(commits, repo, commit) ==
    { AncestorRow(c) : c \in { x \in commits : x.repository_id = repo /\ x.commit = commit } }

\* ancestorLineage: the recursive term on the rows of the previous iteration.
AncestorStep(commits, working) ==
    { AncestorRow(c) :
        c \in { x \in commits : \E a \in working :
                    /\ a.repository_id = x.repository_id
                    /\ a.parent = x.commit } }

RECURSIVE AncestorLayers(_, _, _)
AncestorLayers(commits, working, seen) ==
    IF working = {} THEN <<>>
    ELSE LET new == AncestorStep(commits, working) \ (seen \cup working)
         IN  <<working>> \o AncestorLayers(commits, new, seen \cup working)

\* The row orders the recursive query can produce.
ancestorLineage(commits, repo, commit) ==
    LayerOrders(AncestorLayers(commits, AncestorSeed(commits, repo, commit), {}))

\* DELETE FROM lsif_uploads WHERE id = $1
deleteUpload(uploads, id) == { u \in uploads : u.ID # id }

\* The UPDATE of DeleteUploadByID restricted to newly visible rows: the
\* previously visible ones keep their flag.
updateVisibility_setOnly(uploads, repositoryID, visible_ids) ==
    { IF /\ u \in lsif_dumps(uploads)
         /\ u.RepositoryID = repositoryID
         /\ u.ID \in visible_ids
      THEN [u EXCEPT !.VisibleAtTip = u.ID \in visible_ids]
      ELSE u : u \in uploads }

\* UPDATE lsif_dumps d SET visible_at_tip = id IN (SELECT * from visible_ids)
\* WHERE d.repository_id = $1 AND (d.id IN (SELECT * from visible_ids) OR d.visible_at_tip)
updateVisibility(uploads, repositoryID, visible_ids) ==
    { IF /\ u \in lsif_dumps(uploads)
         /\ u.RepositoryID = repositoryID
         /\ (u.ID \in visible_ids \/ u.VisibleAtTip)
      THEN [u EXCEPT !.VisibleAtTip = u.ID \in visible_ids]
      ELSE u : u \in uploads }

\* The steps of DeleteUploadByID at which an error can come back.
DeleteFailures == {"none", "delete", "repo", "git", "update"}

\* The function DeleteUploadByID hands to dbutil.Transaction, run on the
\* transaction's view `uploads`: the view it leaves, found and the error.
\* `lineage` is the row order the recursive query produces from the commit
\* that git rev-parse HEAD prints for the repository.
deleteUploadTx(uploads, id, lineage, fail) ==
    LET rows == { u \in uploads : u.ID = id }
        row == CHOOSE u \in rows : TRUE
        deleted == deleteUpload(uploads, id)
        visible_ids == visibleDumps(lineageWithDumps(lineage, lsif_dumps(deleted)))
    IN  IF fail = "delete" THEN
            [uploads |-> uploads, found |-> FALSE, err |-> fail, visible_ids |-> {},
             recomputed |-> FALSE]
        ELSE IF rows = {} THEN
            [uploads |-> uploads, found |-> FALSE, err |-> "", visible_ids |-> {},
             recomputed |-> FALSE]
        ELSE IF ~row.VisibleAtTip THEN
            [uploads |-> deleted, found |-> TRUE, err |-> "", visible_ids |-> {},
             recomputed |-> FALSE]
        ELSE IF fail \in {"repo", "git"} THEN
            [uploads |-> deleted, found |-> TRUE, err |-> fail, visible_ids |-> {},
             recomputed |-> FALSE]
        ELSE IF fail = "update" THEN
            [uploads |-> deleted, found |-> TRUE, err |-> fail, visible_ids |-> visible_ids,
             recomputed |-> FALSE]
        ELSE
            [uploads |-> updateVisibility(deleted, row.RepositoryID, visible_ids),
             found |-> TRUE, err |-> "", visible_ids |-> visible_ids, recomputed |-> TRUE]

\* DB.DeleteUploadByID(id): the table afterwards and what the call returned.
DeleteUploadByID(uploads, id, lineage, fail) ==
    LET Returned(r) ==
            [uploads |-> Transaction(uploads, r.uploads, r.err), found |-> r.found,
             err |-> r.err, visible_ids |-> r.visible_ids, recomputed |-> r.recomputed]
    IN  Returned(deleteUploadTx(uploads, id, lineage, fail))

\* The steps of Enqueue at which an error can come back.
EnqueueFailures == {"none", "insert", "callback"}

\* DB.Enqueue(commit, root, tracingContext, repositoryID, indexerName,
\* callback): the INSERT goes through db.db, a connection of its own outside
\* the transaction, so the row is committed when the statement returns; the
\* statements run on tx are none. `id` is the next value of the id sequence.
Enqueue(uploads, id, commit, root, repositoryID, indexerName, fail) ==
    LET row == UploadRow(id, repositoryID, commit, root, indexerName, "queued", FALSE)
        written == IF fail = "insert" THEN uploads ELSE uploads \cup {row}
        err == IF fail = "none" THEN "" ELSE fail
    IN  [uploads |-> Transaction(written, written, err),
         id |-> IF fail = "insert" THEN 0 ELSE id, err |-> err]

(***************************************************************************)
(* Metadata store: state machine                                           *)
(***************************************************************************)

MaxEnqueues == 1

\* The commit graphs of the store machine: a linear history and one with a
\* merge commit, each with the commit of repository 2.
StoreCommitTables ==
    { { CommitRow(1, "c1", NoCommit, 1), CommitRow(2, "c2", "c1", 1),
        CommitRow(3, "c3", "c2", 1) } \cup ForeignCommits,
      { CommitRow(1, "c1", NoCommit, 1), CommitRow(2, "c2", NoCommit, 1),
        CommitRow(3, "c3", "c1", 1), CommitRow(4, "c3", "c2", 1) } \cup ForeignCommits }

\* lsif_uploads at the start: two uploads of repository 1, one of repository
\* 2, with the flags the previous tip left behind.
StoreUploadTables ==
    { { UploadRow(1, 1, "c3", <<"a", "/">>, "Z", "completed", v1),
        UploadRow(2, 1, c2, <<"a", "/", "s", "/">>, ix, s2, v2 /\ s2 = "completed"),
        UploadRow(3, 2, "c1", <<>>, "Z", "completed", TRUE) } :
        v1 \in BOOLEAN, c2 \in {"c1", "c2"}, ix \in Indexers,
        s2 \in {"completed", "queued"}, v2 \in BOOLEAN }

NoCall ==
    [op |-> "none", id |-> 0, found |-> FALSE, err |-> "", before |-> {},
     visible_ids |-> {}, recomputed |-> FALSE]

StoreInit ==
    /\ storeIn \in [commits : StoreCommitTables, tip : {"c2", "c3"}]
    /\ storeDb \in [uploads : StoreUploadTables, nextID : {4}, last : {NoCall}]

StoreIdle ==
    /\ storeIn = [commits |-> {}, tip |-> NoCommit]
    /\ storeDb = [uploads |-> {}, nextID |-> 0, last |-> NoCall]

\* git rev-parse HEAD in the repository of upload `id`.
TipOf(id) ==
    IF \E u \in storeDb.uploads : u.ID = id /\ u.RepositoryID = 1
    THEN storeIn.tip ELSE "c1"

RepositoryOf(id) ==
    IF \E u \in storeDb.uploads : u.ID = id
    THEN (CHOOSE u \in storeDb.uploads : u.ID = id).RepositoryID ELSE 0

\* DELETE /uploads/{id}: DB.DeleteUploadByID(id)
StoreDeleteUploadByID ==
    \E id \in 1..(storeDb.nextID), fail \in DeleteFailures :
    \E lineage \in ancestorLineage(storeIn.commits, RepositoryOf(id), TipOf(id)) :
    \E r \in { DeleteUploadByID(storeDb.uploads, id, lineage, fail) } :
        /\ storeDb' = [storeDb EXCEPT
              !.uploads = r.uploads,
              !.last = [op |-> "DeleteUploadByID", id |-> id, found |-> r.found,
                        err |-> r.err, before |-> storeDb.uploads,
                        visible_ids |-> r.visible_ids, recomputed |-> r.recomputed]]
        /\ UNCHANGED <<storeIn, visVars, codecVars, hoverVars, pagerVars, resolveVars, driverVars, dbCacheVars, simpleVars, remoteVars, gatherVars>>

\* POST /upload: DB.Enqueue with the callback that ships the payload to the
\* bundle manager.
StoreEnqueue ==
    /\ storeDb.nextID < 4 + MaxEnqueues
    /\ \E commit \in {"c3"}, ix \in {"Z"}, fail \in EnqueueFailures :
       \E r \in { Enqueue(storeDb.uploads, storeDb.nextID, commit, <<"a", "/">>, 1, ix, fail) } :
          storeDb' = [storeDb EXCEPT
              !.uploads = r.uploads,
              !.nextID = IF fail = "insert" THEN @ ELSE @ + 1,
              !.last = [op |-> "Enqueue", id |-> r.id, found |-> FALSE,
                        err |-> r.err, before |-> storeDb.uploads,
                        visible_ids |-> {}, recomputed |-> FALSE]]
    /\ UNCHANGED <<storeIn, visVars, codecVars, hoverVars, pagerVars, resolveVars, driverVars, dbCacheVars, simpleVars, remoteVars, gatherVars>>

StoreNext == StoreDeleteUploadByID \/ StoreEnqueue

(***************************************************************************)
(* Specifications                                                          *)
(***************************************************************************)

InitVis == VisInit /\ CodecIdle /\ HoverIdle /\ PagerIdle /\ ResolveIdle /\ DriverIdle /\ DbCacheIdle /\ SimpleCacheIdle /\ RemoteIdle /\ GatherIdle /\ StoreIdle

SpecVis == InitVis /\ [][VisNext]_vars

InitCodec == CodecInit /\ VisIdle /\ HoverIdle /\ PagerIdle /\ ResolveIdle /\ DriverIdle /\ DbCacheIdle /\ SimpleCacheIdle /\ RemoteIdle /\ GatherIdle /\ StoreIdle

SpecCodec == InitCodec /\ [][CodecNext]_vars

InitHover == HoverInit /\ VisIdle /\ CodecIdle /\ PagerIdle /\ ResolveIdle /\ DriverIdle /\ DbCacheIdle /\ SimpleCacheIdle /\ RemoteIdle /\ GatherIdle /\ StoreIdle

SpecHover == InitHover /\ [][HoverNext]_vars

InitPager == PagerInit /\ VisIdle /\ CodecIdle /\ HoverIdle /\ ResolveIdle /\ DriverIdle /\ DbCacheIdle /\ SimpleCacheIdle /\ RemoteIdle /\ GatherIdle /\ StoreIdle

SpecPager == InitPager /\ [][PagerNext]_vars

InitResolve == ResolveInit /\ VisIdle /\ CodecIdle /\ HoverIdle /\ PagerIdle /\ DriverIdle /\ DbCacheIdle /\ SimpleCacheIdle /\ RemoteIdle /\ GatherIdle /\ StoreIdle

SpecResolve == InitResolve /\ [][ResolveNext]_vars

InitDriver ==
    /\ DriverInit /\ VisIdle /\ CodecIdle /\ HoverIdle /\ PagerIdle /\ ResolveIdle
    /\ DbCacheIdle /\ SimpleCacheIdle /\ RemoteIdle /\ GatherIdle /\ StoreIdle

SpecDriver == InitDriver /\ [][DriverNext]_vars

InitDbCache ==
    /\ DbCacheInit /\ VisIdle /\ CodecIdle /\ HoverIdle /\ PagerIdle /\ ResolveIdle
    /\ DriverIdle /\ SimpleCacheIdle /\ RemoteIdle /\ GatherIdle /\ StoreIdle

SpecDbCache == InitDbCache /\ [][DbCacheNext]_vars

\* The goroutine the evict callback starts is scheduled like any other: once
\* it can take a step it eventually does.
SpecDbCacheFair ==
    SpecDbCache /\ WF_vars(DbCloserWait) /\ WF_vars(DbCloserClose)

InitSimpleCache ==
    /\ SimpleCacheInit /\ VisIdle /\ CodecIdle /\ HoverIdle /\ PagerIdle /\ ResolveIdle
    /\ DriverIdle /\ DbCacheIdle /\ RemoteIdle /\ GatherIdle /\ StoreIdle

SpecSimpleCache == InitSimpleCache /\ [][SimpleCacheNext]_vars

InitRemote ==
    /\ RemoteInit /\ VisIdle /\ CodecIdle /\ HoverIdle /\ PagerIdle /\ ResolveIdle
    /\ DriverIdle /\ DbCacheIdle /\ SimpleCacheIdle /\ GatherIdle /\ StoreIdle

SpecRemote == InitRemote /\ [][RemoteNext]_vars

InitGather ==
    /\ GatherInit /\ VisIdle /\ CodecIdle /\ HoverIdle /\ PagerIdle /\ ResolveIdle
    /\ DriverIdle /\ DbCacheIdle /\ SimpleCacheIdle /\ RemoteIdle /\ StoreIdle

SpecGather == InitGather /\ [][GatherNext]_vars

\* The loop runs on the request's goroutine and nothing suspends it for
\* good: a pager call returns, and an enabled iteration is taken.
SpecGatherFair == SpecGather /\ WF_vars(GatherNext)

InitStore ==
    /\ StoreInit /\ VisIdle /\ CodecIdle /\ HoverIdle /\ PagerIdle /\ ResolveIdle
    /\ DriverIdle /\ DbCacheIdle /\ SimpleCacheIdle /\ RemoteIdle /\ GatherIdle

SpecStore == InitStore /\ [][StoreNext]_vars

(***************************************************************************)
(* Visibility engine: properties                                           *)
(***************************************************************************)

\* One root is a prefix of the other.
RootsOverlap(r1, r2) == HasPrefix(r1, r2) \/ HasPrefix(r2, r1)

\* The dump ids a FindClosestDumps / findClosestDatabase call returned.
ReturnedIDs == { visOut.dumps[i].ID : i \in DOMAIN visOut.dumps }

\* The smallest lineage row number at which dump `id` occurs.
MinRow(id) ==
    CHOOSE n \in { r.n : r \in { x \in visOut.lwd : x.dump_id = id } } :
        \A r \in { x \in visOut.lwd : x.dump_id = id } : n <= r.n

\* C5 (visibility shadowing): for two candidate dumps A and B of the bounded
\* lineage with the same indexer and overlapping roots (one root a prefix of
\* the other), if A's row number is strictly smaller than every row number at
\* which B occurs, then B is neither in the result of GetVisibleIDs nor
\* returned by FindClosestDumps.
C5_VisibilityShadowing ==
    \A a, b \in visOut.lwd :
        ( /\ a.indexer = b.indexer
          /\ RootsOverlap(a.root, b.root)
          /\ \A r \in visOut.lwd : r.dump_id = b.dump_id => a.n < r.n )
        => /\ b.dump_id \notin visOut.ids
           /\ b.dump_id \notin ReturnedIDs

\* C6 (closest-dump prefix): every dump returned by FindClosestDumps(repo,
\* commit, file) has a root that is a prefix of file, belongs to repository
\* repo, and is a member of the visible set of (repo, commit).
C6_ClosestDumpPrefix ==
    visOut.op \in {"FindClosestDumps", "findClosestDatabase"} =>
        \A i \in DOMAIN visOut.dumps :
            /\ HasPrefix(visOut.file, visOut.dumps[i].Root)
            /\ visOut.dumps[i].RepositoryID = visOut.repo
            /\ visOut.dumps[i].ID \in visOut.ids

\* C7 (closest-dump order): FindClosestDumps returns its dumps ordered by
\* lineage distance n ascending, each dump at most once, and
\* findClosestDatabase hands them on in that order.
C7_ClosestDumpsOrdered ==
    visOut.op \in {"FindClosestDumps", "findClosestDatabase"} =>
        \A i, j \in DOMAIN visOut.dumps :
            i < j => /\ visOut.dumps[i].ID # visOut.dumps[j].ID
                     /\ MinRow(visOut.dumps[i].ID) <= MinRow(visOut.dumps[j].ID)

(***************************************************************************)
(* Cursor encoding: properties                                             *)
(***************************************************************************)

\* C9 (cursor round trip): for every cursor C of any of the four phases,
\* decodeCursor(encodeCursor(C)) succeeds and returns a cursor equal to C in
\* every field.
C9_CursorRoundTrip ==
    codecOut.stage = "decoded" => codecOut.err = "" /\ codecOut.cursor = codecIn

(***************************************************************************)
(* Hover: properties                                                       *)
(***************************************************************************)

\* The dump the last hover request named.
HoverDump == GetDumpByID(hoverIn, hoverOut.uploadID).dump

\* The queried position's path inside that dump.
HoverPath == pathRelativeToRoot(HoverDump.Root, hoverOut.file)

\* The bundle's own hover at the queried position.
LocalHover ==
    Hover(hoverIn, HoverDump.ID, HoverPath, hoverOut.line, hoverOut.character)

\* What the definitions resolver answers for the queried position.
ResolvedDefinitions ==
    getDefsRaw(hoverIn, HoverDump, HoverPath, hoverOut.line, hoverOut.character).locations

\* A resolved location's path with its dump's root taken off the front.
DumpRelativePath(l) == SubSeq(l.Path, Len(l.Dump.Root) + 1, Len(l.Path))

ResolverOps == {"Definitions", "MonikersByPosition", "PackageInformation", "GetPackage"}

\* C8 (hover fallback): if the bundle's Hover at the queried position of the
\* current dump is present, getHover returns it and makes no Definitions,
\* MonikersByPosition, PackageInformation or GetPackage call; if it is absent,
\* the result is the Hover of the first resolved definition's dump at that
\* definition's dump-relative path and range start, and is absent when there
\* is no definition.
C8_HoverFallback ==
    (hoverOut.op = "getHover" /\ hoverOut.err = "") =>
        IF LocalHover.exists
        THEN /\ hoverOut.hover = LocalHover
             /\ \A i \in DOMAIN hoverOut.calls : hoverOut.calls[i].op \notin ResolverOps
        ELSE IF ResolvedDefinitions = <<>>
        THEN ~hoverOut.hover.exists
        ELSE hoverOut.hover =
                Hover(hoverIn, ResolvedDefinitions[1].Dump.ID,
                      DumpRelativePath(ResolvedDefinitions[1]),
                      ResolvedDefinitions[1].Range.Start.Line,
                      ResolvedDefinitions[1].Range.Start.Character)

\* C8 witness: the local hover is absent, the dump has a non-empty root, and
\* the fallback found hover text at the first definition.
C8_FallbackAnswered ==
    /\ hoverOut.op = "getHover"
    /\ hoverOut.err = ""
    /\ ~LocalHover.exists
    /\ HoverDump.Root # <<>>
    /\ Len(ResolvedDefinitions) > 1
    /\ hoverOut.hover.exists
    /\ \E i \in DOMAIN hoverOut.calls : hoverOut.calls[i].op = "Definitions"

(***************************************************************************)
(* Reference pager: properties                                             *)
(***************************************************************************)

\* Every location the pages of the query returned, in page order.
PagedLocations == Flatten(pagerOut.pages)

\* The key of a resolved location: dump id, path, range.
LocationKey(l) == <<l.Dump.ID, l.Path, l.Range>>

\* The seed cursor of the query on the origin dump.
SeedCursor ==
    makeCursor(pagerIn.w, PagerQuery.repositoryID, PagerQuery.commit, PagerQuery.file,
               PagerQuery.line, PagerQuery.character, 1, pagerIn.limit).cursor

\* Every reference row of (scheme, identifier) in a dump, resolved against it.
DumpStream(dumpID, scheme, identifier) ==
    resolveLocations(GetDumpByID(pagerIn.w, dumpID).dump,
        MonikerResults(pagerIn.w, dumpID, "reference", scheme, identifier,
                       Nil, Nil).locations)

\* Stream 1: References and the reference rows of every moniker, in the
\* origin dump.
SameDumpStream ==
    resolveLocations(GetDumpByID(pagerIn.w, SeedCursor.DumpID).dump,
        References(pagerIn.w, SeedCursor.DumpID, SeedCursor.Path, SeedCursor.Line,
                   SeedCursor.Character)
        \o sameDumpMonikerResults(pagerIn.w, SeedCursor.DumpID, SeedCursor.Monikers))

\* The package a moniker of the seed cursor belongs to.
PackageOf(moniker) ==
    PackageInformation(pagerIn.w, SeedCursor.DumpID, SeedCursor.Path,
                       moniker.PackageInformationID)

\* The dump that defines a moniker's package: the lsif_packages row.
DefiningDump(moniker) ==
    GetPackage(pagerIn.w, moniker.Scheme, PackageOf(moniker).Name,
               PackageOf(moniker).Version).dump

\* The reference rows of an import moniker in its defining dump.
DefinitionRows(moniker) ==
    IF moniker.Kind # "import" \/ moniker.PackageInformationID = ""
          \/ DefiningDump(moniker) = ZeroDump
    THEN <<>>
    ELSE DumpStream(DefiningDump(moniker).ID, moniker.Scheme, moniker.Identifier)

\* Stream 2: the rows of the first import moniker that has any.
DefinitionStream ==
    IF \E i \in DOMAIN SeedCursor.Monikers : DefinitionRows(SeedCursor.Monikers[i]) # <<>>
    THEN DefinitionRows(SeedCursor.Monikers[
             CHOOSE i \in DOMAIN SeedCursor.Monikers :
                 /\ DefinitionRows(SeedCursor.Monikers[i]) # <<>>
                 /\ \A j \in 1..(i - 1) : DefinitionRows(SeedCursor.Monikers[j]) = <<>>])
    ELSE <<>>

\* The monikers of the seed cursor that carry package information.
PackageMonikers ==
    SelectSeq(SeedCursor.Monikers, LAMBDA m : m.PackageInformationID # "")

\* The streams of the dumps of a batch, the origin dump left out.
RECURSIVE BatchStream(_, _)
BatchStream(refs, moniker) ==
    IF refs = <<>> THEN <<>>
    ELSE (IF Head(refs).DumpID = SeedCursor.DumpID THEN <<>>
          ELSE DumpStream(Head(refs).DumpID, moniker.Scheme, moniker.Identifier))
         \o BatchStream(Tail(refs), moniker)

\* Streams 3 and 4: the dumps of the query's repository, then the dumps of
\* other repositories, that reference the package of the first moniker with
\* package information.
RemoteStreams ==
    IF PackageMonikers = <<>> THEN <<>>
    ELSE BatchStream(
             GetSameRepoPackageRefs(pagerIn.w, PackageMonikers[1].Scheme,
                 PackageOf(PackageMonikers[1]).Name, PackageOf(PackageMonikers[1]).Version,
                 StoreVisibleIDs(pagerIn.w, PagerQuery.repositoryID, PagerQuery.commit),
                 0, Cardinality(PagerDumps)),
             PackageMonikers[1])
         \o BatchStream(
             GetPackageRefs(pagerIn.w, PackageMonikers[1].Scheme,
                 PackageOf(PackageMonikers[1]).Name, PackageOf(PackageMonikers[1]).Version,
                 PagerQuery.repositoryID, Cardinality(PagerDumps), 0),
             PackageMonikers[1])

\* The query exhausted in one unbounded page: the four streams in order.
ExhaustedQuery == SameDumpStream \o DefinitionStream \o RemoteStreams

\* C1 (page union): a reference query never fails on the way down its cursor
\* chain, and once no cursor is returned the pages concatenated in order are
\* exactly the location sequence of the exhausted query: the same-dump
\* stream, the definition-monikers stream, the same-repo stream and the
\* remote-repo stream, nothing lost and nothing reordered.
C1_PageUnion ==
    /\ pagerOut.status # "panic"
    /\ pagerOut.status = "done" => PagedLocations = ExhaustedQuery

\* C2 (no duplicate locations): over all pages of a cursor chain no location,
\* keyed by dump id, path and range, is returned more than once.
C2_NoDuplicateLocations ==
    \A i, j \in DOMAIN PagedLocations :
        i # j => LocationKey(PagedLocations[i]) # LocationKey(PagedLocations[j])

RemotePhases == {"same-repo", "remote-repo"}

BundleOps ==
    {"Exists", "Definitions", "References", "Hover", "MonikersByPosition",
     "MonikerResults", "PackageInformation"}

\* The call is a monikerResults request to the bundle of the dump.
IsMonikerCall(call, dump) == call.op = "MonikerResults" /\ call.dump = dump

\* The loop of a remote handler invocation got as far as index j of its batch:
\* it returns early only from the dump whose rows it hands back.
LoopReached(run, j) ==
    \/ run.locations = <<>>
    \/ \A p \in 1..(j - 1) :
           ~IsMonikerCall(run.calls[Len(run.calls)], run.batch[p])

\* C3 (origin exclusion): a handler invocation in phase same-repo or
\* remote-repo returns no location of the origin dump and makes no bundle
\* call on it, and when the loop meets the origin dump in the batch it goes on
\* to the next dump of the batch.
C3_OriginExclusion ==
    \A i \in DOMAIN pagerOut.runs :
        LET run == pagerOut.runs[i] IN
        run.phase \in RemotePhases =>
            /\ \A k \in DOMAIN run.locations : run.locations[k].Dump.ID # run.origin
            /\ \A k \in DOMAIN run.calls :
                   run.calls[k].op \in BundleOps => run.calls[k].dump # run.origin
            /\ \A j \in 1..(Len(run.batch) - 1) :
                   (/\ run.batch[j] = run.origin
                    /\ j > run.skipDumpsInBatch
                    /\ LoopReached(run, j))
                   => \E k \in DOMAIN run.calls :
                          run.calls[k] = Call("GetDumpByID", run.batch[j + 1])

\* C3 witness: a remote handler invocation whose batch holds the origin dump
\* ahead of another dump, and which asked that next dump for its rows.
C3_OriginSkipped ==
    \E i \in DOMAIN pagerOut.runs :
        LET run == pagerOut.runs[i] IN
        /\ run.phase \in RemotePhases
        /\ \E j \in 1..(Len(run.batch) - 1) :
               /\ run.batch[j] = run.origin
               /\ \E k \in DOMAIN run.calls :
                      IsMonikerCall(run.calls[k], run.batch[j + 1])

PhaseOrder == <<"same-dump", "definition-monikers", "same-repo", "remote-repo">>

PhaseRank(phase) == CHOOSE i \in DOMAIN PhaseOrder : PhaseOrder[i] = phase

\* A remote-repo handler invocation that found nothing more returns no cursor.
RemoteRepoExhaustionEnds ==
    \A i \in DOMAIN pagerOut.runs :
        (pagerOut.runs[i].phase = "remote-repo" /\ pagerOut.runs[i].locations = <<>>)
            => ~pagerOut.runs[i].hasNewCursor

\* C10 as stated (phase order): along the chain of cursors the responses
\* carry, the phase never moves backward, a same-dump cursor is followed only
\* by a same-dump or definition-monikers cursor, a same-repo cursor only by a
\* same-repo or remote-repo cursor, and exhausting remote-repo yields no
\* cursor.
C10_PhaseOrder ==
    /\ \A i \in 1..(Len(pagerOut.chain) - 1) :
           /\ PhaseRank(pagerOut.chain[i].Phase) <= PhaseRank(pagerOut.chain[i + 1].Phase)
           /\ pagerOut.chain[i].Phase = "same-dump" =>
                  pagerOut.chain[i + 1].Phase \in {"same-dump", "definition-monikers"}
           /\ pagerOut.chain[i].Phase = "same-repo" =>
                  pagerOut.chain[i + 1].Phase \in {"same-repo", "remote-repo"}
    /\ RemoteRepoExhaustionEnds

\* C10 amended (phase order): along the chain of cursors the responses carry
\* the phase never moves backward; each handler invocation returns a cursor of
\* its own phase or of the phase next in order, so that a response, which may
\* come from several invocations, can carry a cursor more than one phase
\* ahead of its request's; and exhausting remote-repo yields no cursor.
C10_PhaseOrderAmended ==
    /\ \A i, j \in DOMAIN pagerOut.chain :
           i < j => PhaseRank(pagerOut.chain[i].Phase) <= PhaseRank(pagerOut.chain[j].Phase)
    /\ \A i \in DOMAIN pagerOut.runs :
           pagerOut.runs[i].hasNewCursor =>
               /\ pagerOut.runs[i].cursor.Phase \in Elems(PhaseOrder)
               /\ PhaseRank(pagerOut.runs[i].cursor.Phase)
                      \in { PhaseRank(pagerOut.runs[i].phase),
                            PhaseRank(pagerOut.runs[i].phase) + 1 }
    /\ RemoteRepoExhaustionEnds

\* C10 witness: a response carried a cursor two phases ahead of its
\* request's, and the query went on through remote-repo to its end.
C10_ChainSkippedPhase ==
    /\ pagerOut.status = "done"
    /\ \E i \in 1..(Len(pagerOut.chain) - 1) :
           PhaseRank(pagerOut.chain[i + 1].Phase) > PhaseRank(pagerOut.chain[i].Phase) + 1
    /\ \E i \in DOMAIN pagerOut.runs :
           pagerOut.runs[i].phase = "remote-repo" /\ ~pagerOut.runs[i].hasNewCursor

(***************************************************************************)
(* Definitions resolver: properties                                        *)
(***************************************************************************)

\* The monikers at the queried position, innermost first.
PositionMonikers ==
    Flatten(MonikersByPosition(hoverIn, HoverDump.ID, HoverPath, hoverOut.line,
                               hoverOut.character))

\* The dump the package index names for the first moniker of the position.
FirstMonikerDump ==
    GetPackage(hoverIn, PositionMonikers[1].Scheme,
        PackageInformation(hoverIn, HoverDump.ID, HoverPath,
                           PositionMonikers[1].PackageInformationID).Name,
        PackageInformation(hoverIn, HoverDump.ID, HoverPath,
                           PositionMonikers[1].PackageInformationID).Version).dump

\* The definition rows of the first moniker in that dump.
FirstMonikerDefinitions ==
    MonikerResults(hoverIn, FirstMonikerDump.ID, "definition", PositionMonikers[1].Scheme,
                   PositionMonikers[1].Identifier, Nil, Nil).locations

\* The position has no definition of its own and its first moniker is an
\* import whose package is indexed and defined in the defining dump.
ImportedDefinitionCase ==
    /\ hoverOut.op = "getDefs"
    /\ hoverOut.err = ""
    /\ Definitions(hoverIn, HoverDump.ID, HoverPath, hoverOut.line, hoverOut.character) = <<>>
    /\ PositionMonikers # <<>>
    /\ PositionMonikers[1].Kind = "import"
    /\ PositionMonikers[1].PackageInformationID # ""
    /\ FirstMonikerDump # ZeroDump
    /\ FirstMonikerDefinitions # <<>>

\* C11 (cross-dump definitions): when Definitions at the position is empty,
\* the first moniker is an import with package information whose package has
\* a row in the package index, and the defining dump has definition rows for
\* it, getDefs returns exactly those rows, each attributed to the defining
\* dump with the path under that dump's root.
C11_CrossDumpDefinitions ==
    ImportedDefinitionCase =>
        hoverOut.locations =
            [i \in DOMAIN FirstMonikerDefinitions |->
                [Dump |-> FirstMonikerDump,
                 Path |-> FirstMonikerDump.Root \o FirstMonikerDefinitions[i].Path,
                 Range |-> FirstMonikerDefinitions[i].Range]]

(***************************************************************************)
(* Location resolvers: properties                                          *)
(***************************************************************************)

AllDumpsResolve ==
    \A i \in DOMAIN resolveIn.locations :
        GetDumpByID(resolveIn.w, resolveIn.locations[i].DumpID).exists

\* C13 (order and cardinality): when every source dump id resolves, the
\* multi-dump resolver returns as many locations as it was given, and the
\* i-th of them has the range of the i-th input and the Dump record of the
\* i-th input's dump id.
C13_ResolverPreservesOrder ==
    (resolveOut.op = "Server.resolveLocations" /\ AllDumpsResolve) =>
        /\ Len(resolveOut.locations) = Len(resolveIn.locations)
        /\ \A i \in DOMAIN resolveIn.locations :
               /\ resolveOut.locations[i].Range = resolveIn.locations[i].Range
               /\ resolveOut.locations[i].Dump =
                      GetDumpByID(resolveIn.w, resolveIn.locations[i].DumpID).dump

\* C13 witness: two locations of two different dumps, different ranges, were
\* resolved.
C13_TwoDumpsResolved ==
    /\ resolveOut.op = "Server.resolveLocations"
    /\ AllDumpsResolve
    /\ Len(resolveIn.locations) = 2
    /\ resolveIn.locations[1].DumpID # resolveIn.locations[2].DumpID
    /\ resolveIn.locations[1].Range # resolveIn.locations[2].Range
    /\ Len(resolveOut.locations) = 2

(***************************************************************************)
(* Entry points: properties                                                *)
(***************************************************************************)

EntryPoints == {"getDefs", "getHover", "makeCursor"}

\* C14 (missing dump at entry): getDefs, getHover and makeCursor return
\* ErrMissingDump, having made no bundle call, whenever the upload id has no
\* dump in the store, and do not return it when the dump exists.
C14_MissingDumpAtEntry ==
    hoverOut.op \in EntryPoints =>
        IF GetDumpByID(hoverIn, hoverOut.uploadID).exists
        THEN hoverOut.err # "ErrMissingDump"
        ELSE /\ hoverOut.err = "ErrMissingDump"
             /\ \A i \in DOMAIN hoverOut.calls : hoverOut.calls[i].op \notin BundleOps

\* C14 witness: makeCursor was asked for an upload id the store does not
\* have and answered ErrMissingDump.
C14_MissingDumpReported ==
    /\ hoverOut.op = "makeCursor"
    /\ ~GetDumpByID(hoverIn, hoverOut.uploadID).exists
    /\ hoverOut.err = "ErrMissingDump"
    /\ hoverOut.calls = <<Call("GetDumpByID", hoverOut.uploadID)>>

(***************************************************************************)
(* Reference drivers: properties                                           *)
(***************************************************************************)

\* C15 (malformed cursor): a reference request whose cursor carries a phase
\* tag other than the four phases gets the malformed-cursor error from the
\* driver, never a page.
C15_MalformedCursor ==
    (driverOut.op # "none" /\ driverIn.cursor.Phase \in MalformedPhases)
        => driverOut.err = "malformed cursor"

\* The store and bundle calls one driver invocation made.
DriverCalls == Flatten([i \in DOMAIN driverOut.runs |-> driverOut.runs[i].calls])

\* Some call of the invocation failed.
CallFailed == \E i \in DOMAIN DriverCalls : DriverCalls[i].op \in driverIn.w.fail

\* C16 (error propagation): a driver invocation during which a store or
\* bundle call failed returns an error, no locations and no next cursor.
C16_ErrorPropagation ==
    (driverOut.op # "none" /\ CallFailed)
        => /\ driverOut.err = "call failed"
           /\ driverOut.locations = <<>>
           /\ ~driverOut.hasNewCursor

(***************************************************************************)
(* Dump state: properties                                                  *)
(***************************************************************************)

\* C17 (only completed dumps are queried): every bundle call made for a hover
\* or definitions answer addresses a dump whose state is completed.
C17_OnlyCompletedDumps ==
    hoverOut.op \in {"getHover", "getDefs"} =>
        \A i \in DOMAIN hoverOut.calls :
            hoverOut.calls[i].op \in BundleOps =>
                GetDumpByID(hoverIn, hoverOut.calls[i].dump).dump.State = "completed"

(***************************************************************************)
(* DatabaseCache: properties                                               *)
(***************************************************************************)

\* The goroutines whose handler runs with the database of entry e.
Holders(e) ==
    { g \in DbGoroutines :
        dbCache.procs[g].pc = "handler" /\ dbCache.procs[g].entry = e }

\* The entry has left the lru list.
Evicted(e) ==
    /\ e \in DOMAIN dbCache.entries
    /\ \A i \in DOMAIN dbCache.cache : dbCache.cache[i] # e

\* Close has been invoked on the database of the entry.
Closed(e) == e \in DOMAIN dbCache.entries /\ dbCache.entries[e].closes = 1

\* C18 (open for the whole handler): Close has not been invoked on the
\* database of an entry while a handler that was given it, on a miss or on a
\* hit, has not returned.
C18_OpenWhileHandled ==
    \A e \in DOMAIN dbCache.entries :
        Holders(e) # {} => dbCache.entries[e].closes = 0

\* C19 (closed exactly once, after use): Close is invoked at most once per
\* entry, and an evicted entry whose handlers have all returned is eventually
\* closed.
C19_ClosedOnceAfterUse ==
    /\ [](\A e \in DOMAIN dbCache.entries : dbCache.entries[e].closes <= 1)
    /\ \A e \in 1..MaxDatabases :
           (Evicted(e) /\ Holders(e) = {}) ~> Closed(e)

(***************************************************************************)
(* simpleCache: properties                                                 *)
(***************************************************************************)

\* The goroutines that called Get with the key.
Callers(k) == { g \in ScGoroutines : simpleCache.procs[g].key = k }

\* The case of the claim: several goroutines have called Get, all of them
\* with the key k, and all have returned.
SameKeyReturned(k) ==
    /\ Cardinality(Callers(k)) >= 2
    /\ \A g \in ScGoroutines :
           /\ simpleCache.procs[g].key \in {k, ""}
           /\ simpleCache.procs[g].pc \in {"idle", "returned"}

\* C20 as stated (one build per key): goroutines calling Get with the same
\* key invoke the factory exactly once and all receive its value.
C20_FactoryOnce ==
    \A k \in ScKeys :
        SameKeyReturned(k) =>
            /\ simpleCache.calls[k] = 1
            /\ \A g \in Callers(k) :
                   ~simpleCache.procs[g].err /\ simpleCache.procs[g].value = 1

\* C20 amended: the factory is invoked once more than it failed; a failed
\* call returns the error to its own caller, and every other caller receives
\* the value of the one call that succeeded.  When no call fails that is one
\* invocation and one value for all.
C20_FactoryOnceUnlessFailed ==
    \A k \in ScKeys :
        SameKeyReturned(k) =>
            /\ simpleCache.calls[k] \in {simpleCache.failed[k], simpleCache.failed[k] + 1}
            /\ Cardinality({ g \in Callers(k) : simpleCache.procs[g].err })
                   = simpleCache.failed[k]
            /\ \A g \in Callers(k) :
                   ~simpleCache.procs[g].err =>
                       /\ simpleCache.calls[k] = simpleCache.failed[k] + 1
                       /\ simpleCache.procs[g].value \in 1..simpleCache.calls[k]
                       /\ \A h \in Callers(k) :
                              ~simpleCache.procs[h].err =>
                                  simpleCache.procs[h].value = simpleCache.procs[g].value
            /\ simpleCache.failed[k] = 0 =>
                   /\ simpleCache.calls[k] = 1
                   /\ \A g \in Callers(k) : simpleCache.procs[g].value = 1

\* C20 witness: every goroutine called Get with the same key, no factory call
\* failed, and all returned the value of the single factory call.
C20_AllCallersServed ==
    \E k \in ScKeys :
        /\ Callers(k) = ScGoroutines
        /\ SameKeyReturned(k)
        /\ simpleCache.failed[k] = 0
        /\ simpleCache.calls[k] = 1
        /\ \A g \in ScGoroutines : simpleCache.procs[g].value = 1

(***************************************************************************)
(* Reference pager, single handler invocations: properties                 *)
(***************************************************************************)

\* A driver served a request that the store and the bundles answered.
Served == driverOut.op # "none" /\ driverIn.w.fail = {}

\* The first handler invocation of the request, run on the client's cursor.
FirstRun == driverOut.runs[1]

\* L: References followed by the reference rows of each cursor moniker.
SameDumpList ==
    References(driverIn.w, driverIn.cursor.DumpID, driverIn.cursor.Path,
               driverIn.cursor.Line, driverIn.cursor.Character)
    \o sameDumpMonikerResults(driverIn.w, driverIn.cursor.DumpID,
                              driverIn.cursor.Monikers)

\* C21 (same-dump paging): for a same-dump cursor with skipResults <= |L| the
\* handler does not fail and returns L[skipResults .. min(skipResults + limit,
\* |L|)); the next cursor is the same-dump cursor advanced by limit iff
\* skipResults + limit < |L|, and a definition-monikers cursor otherwise.
C21_SameDumpPaging ==
    (/\ Served
     /\ driverIn.cursor.Phase = "same-dump"
     /\ driverIn.cursor.SkipResults <= Len(SameDumpList))
    => /\ FirstRun.err = ""
       /\ FirstRun.locations =
              resolveLocations(
                  GetDumpByID(driverIn.w, driverIn.cursor.DumpID).dump,
                  SubSeq(SameDumpList, driverIn.cursor.SkipResults + 1,
                         Min(driverIn.cursor.SkipResults + driverIn.limit,
                             Len(SameDumpList))))
       /\ FirstRun.hasNewCursor
       /\ IF driverIn.cursor.SkipResults + driverIn.limit < Len(SameDumpList)
          THEN FirstRun.cursor =
                   [driverIn.cursor EXCEPT
                       !.SkipResults = driverIn.cursor.SkipResults + driverIn.limit]
          ELSE FirstRun.cursor.Phase = "definition-monikers"

\* The monikerResults requests of the first handler invocation.
FirstRunMonikerCalls ==
    { i \in DOMAIN FirstRun.calls : FirstRun.calls[i].op = "MonikerResults" }

\* C23 (window of paginated moniker requests): a monikerResults request
\* issued by the definition-monikers, same-repo or remote-repo phase carries
\* skip = the cursor's result offset and take = the page limit.
C23_MonikerWindow ==
    (Served /\ driverIn.cursor.Phase \in {"definition-monikers", "same-repo", "remote-repo"})
    => \A i \in FirstRunMonikerCalls :
           /\ FirstRun.calls[i].skip =
                  IF driverIn.cursor.Phase = "definition-monikers"
                  THEN driverIn.cursor.SkipResults
                  ELSE driverIn.cursor.SkipResultsInDump
           /\ FirstRun.calls[i].take = driverIn.limit

\* The number of candidate dumps the reference index holds for the cursor of
\* the request: what CountSameRepoPackageRefs, respectively CountPackageRefs,
\* answers.
RemoteCandidates ==
    IF driverIn.cursor.Phase = "same-repo"
    THEN CountSameRepoPackageRefs(driverIn.w, driverIn.cursor.Scheme,
             driverIn.cursor.Name, driverIn.cursor.Version,
             StoreVisibleIDs(driverIn.w, PagerQuery.repositoryID, PagerQuery.commit))
    ELSE CountPackageRefs(driverIn.w, driverIn.cursor.Scheme, driverIn.cursor.Name,
             driverIn.cursor.Version, PagerQuery.repositoryID)

\* C22 (batches are not abandoned): when a same-repo or remote-repo handler
\* finds no result in the dumps of its batch while candidate dumps of the
\* reference index remain unfetched, it answers with a cursor of the same
\* phase, so the remaining candidates are still fetched and examined.
C22_BatchesNotAbandoned ==
    (/\ Served
     /\ driverIn.cursor.Phase \in {"same-repo", "remote-repo"}
     /\ FirstRun.err = ""
     /\ FirstRun.locations = <<>>
     /\ Len(FirstRun.batch) < RemoteCandidates)
    => FirstRun.hasNewCursor /\ FirstRun.cursor.Phase = driverIn.cursor.Phase

\* The monikers of the request's cursor that carry package information, in
\* cursor order.
ResolvingMonikers ==
    SelectSeq(driverIn.cursor.Monikers, LAMBDA mk : mk.PackageInformationID # "")

\* C24 (leaving definition-monikers): when the definition-monikers handler
\* has no further page of its own phase, the next cursor is the same-repo
\* cursor of the first moniker, in cursor order, whose package information
\* resolves, with empty DumpIDs and zero batch counters; there is no next
\* cursor only if no moniker resolves.
C24_LeavingDefinitionMonikers ==
    (/\ Served
     /\ driverIn.cursor.Phase = "definition-monikers"
     /\ FirstRun.err = ""
     /\ ~(FirstRun.hasNewCursor /\ FirstRun.cursor.Phase = "definition-monikers"))
    => IF ResolvingMonikers = <<>> THEN ~FirstRun.hasNewCursor
       ELSE /\ FirstRun.hasNewCursor
            /\ FirstRun.cursor =
                   sameRepoCursor(driverIn.cursor, Head(ResolvingMonikers),
                       PackageInformation(driverIn.w, driverIn.cursor.DumpID,
                           driverIn.cursor.Path,
                           Head(ResolvingMonikers).PackageInformationID))

\* The same for the requests ReferencePageResolver.resolvePage serves.
C24_ResolverPassesOver == driverIn.rev = "resolvePage" => C24_LeavingDefinitionMonikers

(***************************************************************************)
(* Same-repo and remote-repo phases: properties                            *)
(***************************************************************************)

\* The latest call of a phase function, and whether it returned a page with
\* results.
LastRemote == remoteOut.runs[Len(remoteOut.runs)]

RemotePaged ==
    /\ remoteOut.runs # <<>>
    /\ LastRemote.err = ""
    /\ LastRemote.locations # <<>>

\* The batch dump the page came from (the last monikerResults request), its
\* index i in the batch, and the count of results it holds for the moniker.
PageDump == LastRemote.calls[Len(LastRemote.calls)].dump

PageIndex == CHOOSE i \in 0..(Len(LastRemote.batch) - 1) : LastRemote.batch[i + 1] = PageDump

PageCount ==
    MonikerResults(remoteIn.w, PageDump, "reference", LastRemote.in.Scheme,
                   LastRemote.in.Identifier, Nil, Nil).count

\* Phase, origin dump, scheme, identifier, name and version are those of the
\* cursor handed in.
Carried(c, in) ==
    /\ c.Phase = in.Phase /\ c.DumpID = in.DumpID /\ c.Scheme = in.Scheme
    /\ c.Identifier = in.Identifier /\ c.Name = in.Name /\ c.Version = in.Version

\* The batch counters are those of the cursor handed in (when it carried its
\* batch; a fetch sets them anew).
CountersKept(c, in) ==
    in.DumpIDs # <<>> =>
        /\ c.SkipDumpsWhenBatching = in.SkipDumpsWhenBatching
        /\ c.TotalDumpsWhenBatching = in.TotalDumpsWhenBatching

\* Cases 2 to 4 of the continuation, for a page of batch dump i.
LaterContinuation(run, i) ==
    IF i + 1 < Len(run.batch)
    THEN /\ run.hasNewCursor /\ Carried(run.cursor, run.in)
         /\ CountersKept(run.cursor, run.in)
         /\ run.cursor.DumpIDs = run.batch
         /\ run.cursor.SkipDumpsInBatch = i + 1
         /\ run.cursor.SkipResultsInDump = 0
    ELSE IF run.in.DumpIDs # <<>>
    THEN IF run.in.SkipDumpsWhenBatching < run.in.TotalDumpsWhenBatching
         THEN /\ run.hasNewCursor /\ Carried(run.cursor, run.in)
              /\ CountersKept(run.cursor, run.in)
              /\ run.cursor.DumpIDs = <<>>
              /\ run.cursor.SkipDumpsInBatch = 0
              /\ run.cursor.SkipResultsInDump = 0
         ELSE ~run.hasNewCursor
    ELSE run.hasNewCursor =>
             /\ Carried(run.cursor, run.in)
             /\ run.cursor.DumpIDs = <<>>
             /\ run.cursor.SkipDumpsWhenBatching < run.cursor.TotalDumpsWhenBatching
             /\ run.cursor.SkipDumpsInBatch = 0
             /\ run.cursor.SkipResultsInDump = 0

\* C25 (continuation priority): after a non-empty page from batch dump i the
\* next cursor (1) stays at dump i with skipResultsInDump advanced by the
\* page if the dump has more results, (2) else points at dump i+1 with
\* skipResultsInDump 0 if the batch has more dumps, (3) else has its dumpIds
\* cleared and its batch counters kept if skipDumpsWhenBatching is below
\* totalDumpsWhenBatching, (4) else there is no cursor; cases 1 to 3 carry
\* phase, origin dump, scheme, identifier, name and version over.
C25_ContinuationPriority ==
    RemotePaged =>
        IF LastRemote.in.SkipResultsInDump + Len(LastRemote.locations) < PageCount
        THEN /\ LastRemote.hasNewCursor
             /\ Carried(LastRemote.cursor, LastRemote.in)
             /\ CountersKept(LastRemote.cursor, LastRemote.in)
             /\ LastRemote.cursor.DumpIDs = LastRemote.batch
             /\ LastRemote.cursor.SkipDumpsInBatch = PageIndex
             /\ LastRemote.cursor.SkipResultsInDump =
                    LastRemote.in.SkipResultsInDump + Len(LastRemote.locations)
        ELSE LaterContinuation(LastRemote, PageIndex)

\* Cases 2 to 4 alone.
C25_LaterCases ==
    (RemotePaged /\ ~(LastRemote.in.SkipResultsInDump + Len(LastRemote.locations) < PageCount))
    => LaterContinuation(LastRemote, PageIndex)

\* Case 1 as the code has it: the cursor keeps the skipDumpsInBatch it came
\* with and skipResultsInDump grows by the limit.
C25_SameDumpAsCoded ==
    (RemotePaged /\ LastRemote.in.SkipResultsInDump + Len(LastRemote.locations) < PageCount)
    => /\ LastRemote.hasNewCursor
       /\ Carried(LastRemote.cursor, LastRemote.in)
       /\ CountersKept(LastRemote.cursor, LastRemote.in)
       /\ LastRemote.cursor.DumpIDs = LastRemote.batch
       /\ LastRemote.cursor.SkipDumpsInBatch = LastRemote.in.SkipDumpsInBatch
       /\ LastRemote.cursor.SkipResultsInDump =
              LastRemote.in.SkipResultsInDump + remoteIn.limit

\* The batch dump a page came from and all the results that dump holds for
\* the moniker of the cursor.
RunDump(run) == run.calls[Len(run.calls)].dump

RunResults(run) ==
    MonikerResults(remoteIn.w, RunDump(run), "reference", run.in.Scheme,
                   run.in.Identifier, Nil, Nil).locations

\* The page returned k > 0 locations of a dump that has more behind them.
PagedInsideDump(run) ==
    /\ run.err = ""
    /\ run.locations # <<>>
    /\ run.in.SkipResultsInDump + Len(run.locations) < Len(RunResults(run))

\* C26 (resuming inside a dump): when a page returned k locations of a batch
\* dump that has more (offset + k < count), the call with the returned
\* cursor returns that dump's results from offset + k on, up to the limit:
\* none skipped, none repeated.
C26_ResumeInsideDump ==
    \A j \in 1..(Len(remoteOut.runs) - 1) :
        PagedInsideDump(remoteOut.runs[j]) =>
            LET run == remoteOut.runs[j]
                from == run.in.SkipResultsInDump + Len(run.locations)
                rest == SubSeq(RunResults(run), from + 1,
                               Min(from + remoteIn.limit, Len(RunResults(run))))
            IN  /\ remoteOut.runs[j + 1].err = ""
                /\ remoteOut.runs[j + 1].locations =
                       resolveLocations(GetDumpByID(remoteIn.w, RunDump(run)).dump, rest)

\* What the store counts as candidate dumps for a cursor of either phase.
StoreCandidates(c) ==
    IF c.Phase = "same-repo"
    THEN CountSameRepoPackageRefs(remoteIn.w, c.Scheme, c.Name, c.Version,
             StoreVisibleIDs(remoteIn.w, PagerQuery.repositoryID, PagerQuery.commit))
    ELSE CountPackageRefs(remoteIn.w, c.Scheme, c.Name, c.Version,
                          PagerQuery.repositoryID)

\* A call that fetched a batch and emitted a cursor.
FetchedAndEmitted(run) == run.in.DumpIDs = <<>> /\ run.err = "" /\ run.hasNewCursor

\* C27 (batch counters after a fetch): a cursor emitted by a call that
\* fetched a batch has totalDumpsWhenBatching = the store's candidate count
\* and skipDumpsWhenBatching = the previous offset plus the reference rows
\* scanned (the filter passes every row, so these are the rows of the batch),
\* hence 0 <= skipDumpsWhenBatching <= totalDumpsWhenBatching.
C27_BatchCounters ==
    \A j \in DOMAIN remoteOut.runs :
        FetchedAndEmitted(remoteOut.runs[j]) =>
            LET run == remoteOut.runs[j] IN
            /\ run.cursor.TotalDumpsWhenBatching = StoreCandidates(run.in)
            /\ run.cursor.SkipDumpsWhenBatching =
                   run.in.SkipDumpsWhenBatching + Len(run.batch)
            /\ 0 <= run.cursor.SkipDumpsWhenBatching
            /\ run.cursor.SkipDumpsWhenBatching <= run.cursor.TotalDumpsWhenBatching

(***************************************************************************)
(* gatherPackageReferences: properties                                     *)
(***************************************************************************)

\* What holds when gatherPackageReferences returns without an error.
GatherPostcondition ==
    (gatherOut.status = "returned" /\ gatherOut.err = "")
    => /\ \/ Len(gatherOut.refs) >= gatherIn.limit
          \/ gatherOut.newOffset >= gatherIn.totalCount
          \/ gatherOut.emptyPage
       /\ gatherOut.newOffset - gatherIn.offset = gatherOut.rows

\* C28 (gathering terminates): gatherPackageReferences returns for every
\* input and every pager, and when it returns (without an error) at least
\* limit candidates were gathered, or newOffset >= totalCount, or the pager
\* answered with an empty page; newOffset minus the starting offset is the
\* number of reference rows the pager handed out.
C28_GatherTerminates == []GatherPostcondition /\ <>(gatherOut.status = "returned")

\* Two pages were needed to gather limit candidates.
C28_GatheredInTwoPages ==
    /\ gatherOut.status = "returned"
    /\ gatherOut.err = ""
    /\ gatherOut.pages = 2
    /\ gatherOut.rows = 2
    /\ Len(gatherOut.refs) >= gatherIn.limit
    /\ gatherOut.newOffset < gatherIn.totalCount

(***************************************************************************)
(* Reference drivers: page size and termination                            *)
(***************************************************************************)

\* C29 (page size): one driver invocation returns at most limit locations in
\* total, summed over the phase handlers it runs.
C29_AtMostLimit ==
    (driverOut.op # "none" /\ driverOut.err = "")
    => Len(driverOut.locations) <= driverIn.limit

\* The same for the requests Server.handlePagination serves, whose recursion
\* goes on with the limit the page left.
C29_PaginationAtMostLimit == driverIn.rev = "handlePagination" => C29_AtMostLimit

\* The cursor chain of the request has ended: the latest response failed or
\* carries no cursor.
ChainEnded ==
    /\ driverOut.op # "none"
    /\ (driverOut.follow.err # "" \/ ~driverOut.follow.hasNewCursor)

\* The client still holds a cursor after MaxFollow pages.
ChainCutOff ==
    /\ driverOut.follow.pages = MaxFollow
    /\ driverOut.follow.err = ""
    /\ driverOut.follow.hasNewCursor

\* C30 (driver termination): for every cursor, finite store and bundle data
\* and limit >= 1, one driver invocation finishes after finitely many handler
\* calls (at most one per location of the limit and one per phase), no
\* cursor is followed by an identical cursor with an empty page, and the
\* cursor chain reaches a response without cursor after finitely many pages
\* (fewer than MaxFollow for the stores at hand).
C30_DriverTermination ==
    driverOut.op # "none" =>
        /\ driverOut.follow.calls <= driverIn.limit + 4
        /\ ~(/\ driverOut.follow.err = ""
             /\ driverOut.follow.hasNewCursor
             /\ driverOut.follow.cursor = driverOut.follow.request
             /\ driverOut.follow.locations = <<>>)
        /\ ~ChainCutOff

\* A chain of four pages that ended without a cursor.
C30_ChainOfFourPages ==
    /\ ChainEnded
    /\ driverOut.follow.err = ""
    /\ driverOut.follow.pages = 4

(***************************************************************************)
(* Package index: properties                                               *)
(***************************************************************************)

\* The package index has a row for (scheme, name, version) whose dump_id
\* joins an upload.
PackageJoined(w, scheme, name, version) ==
    \E p \in w.packages :
        /\ p.scheme = scheme /\ p.name = name /\ p.version = version
        /\ \E d \in w.dumps : d.ID = p.dump_id

\* The definitions request looked a package up.
AskedGetPackage ==
    /\ hoverOut.op = "getDefs"
    /\ \E i \in DOMAIN hoverOut.calls : hoverOut.calls[i].op = "GetPackage"

\* C31 (GetPackage reports existence): GetPackage returns found = true with
\* the defining dump whenever the package index has a row for (scheme, name,
\* version) joined to an upload, and found = false only when there is none.
C31_GetPackageFound ==
    AskedGetPackage =>
        LET pid == PackageInformation(hoverIn, hoverOut.uploadID, hoverOut.file,
                                      ImportMoniker.PackageInformationID)
            r == GetPackage(hoverIn, ImportMoniker.Scheme, pid.Name, pid.Version)
        IN  /\ r.exists <=> PackageJoined(hoverIn, ImportMoniker.Scheme, pid.Name, pid.Version)
            /\ r.exists => \E p \in hoverIn.packages : p.dump_id = r.dump.ID

(***************************************************************************)
(* Visibility engine: what shadowing leaves alone                          *)
(***************************************************************************)

\* The candidate dumps of the bounded lineage that the query left out.
ExcludedCandidates == { r.dump_id : r \in visOut.lwd } \ visOut.ids

\* C32 (shadowing removes nothing else): a candidate dump of the bounded
\* lineage is excluded from GetVisibleIDs only if some candidate with the same
\* indexer, an overlapping root (one root a prefix of the other) and a
\* strictly smaller row number n exists; a dump of another indexer, or one at
\* an equal n, never hides it.
C32_ShadowingOnly ==
    \A id \in ExcludedCandidates :
        \E b \in visOut.lwd, a \in visOut.lwd :
            /\ b.dump_id = id
            /\ a.indexer = b.indexer
            /\ RootsOverlap(a.root, b.root)
            /\ a.n < b.n

(***************************************************************************)
(* Visibility engine: the bounded traversal                                *)
(***************************************************************************)

\* The commits reachable from `frontier` along `edges` (pairs <<from, to>>),
\* the frontier included.
RECURSIVE Reachable(_, _, _)
Reachable(edges, frontier, seen) ==
    IF frontier \subseteq seen THEN seen
    ELSE Reachable(edges, { e[2] : e \in { x \in edges : x[1] \in frontier } },
                   seen \cup frontier)

\* The ancestors and the descendants of the queried commit in its repository.
AncestorsOfStart ==
    Reachable({ <<c.commit, c.parent_commit>> :
                  c \in { x \in visIn.commits : x.repository_id = visOut.repo } },
              {visOut.commit}, {})

DescendantsOfStart ==
    Reachable({ <<c.parent_commit, c.commit>> :
                  c \in { x \in visIn.commits : x.repository_id = visOut.repo } },
              {visOut.commit}, {})

\* The commits the traversal visited in one direction.
Visited(dir) ==
    { visOut.lineage[i].commit :
        i \in { j \in DOMAIN visOut.lineage : visOut.lineage[j].direction = dir } }

\* The row numbers the query considers.
ConsideredRows == 1..Min(Len(visOut.lineage), MaxTraversalLimit)

\* Dump `id` sits on the commit of lineage row n.
AttachedAt(id, n) ==
    \E d \in visIn.dumps :
        /\ d.ID = id
        /\ d.RepositoryID = visOut.lineage[n].repository_id
        /\ d.Commit = visOut.lineage[n].commit

\* C33 (bounded lineage traversal): the bidirectional lineage computation ends
\* on every finite commit relation, one with a cycle included (no row is
\* produced twice, so the lineage has at most two rows per commit row); it
\* visits only ancestors (direction A) or descendants (direction D) of the
\* start commit; and the query considers at most MaxTraversalLimit lineage
\* rows, so that a dump attached only to rows beyond the first
\* MaxTraversalLimit is neither visible nor returned by FindClosestDumps.
C33_BoundedLineage ==
    visOut.op # "none" =>
        /\ \A i, j \in DOMAIN visOut.lineage :
              visOut.lineage[i] = visOut.lineage[j] => i = j
        /\ Len(visOut.lineage) <= 2 * Cardinality(visIn.commits)
        /\ Visited("A") \subseteq AncestorsOfStart
        /\ Visited("D") \subseteq DescendantsOfStart
        /\ \A r \in visOut.lwd : r.n \in ConsideredRows
        /\ \A id \in visOut.ids \cup ReturnedIDs :
              \E n \in ConsideredRows : AttachedAt(id, n)

\* C33 witness: FindClosestDumps ran on a history of more than
\* MaxTraversalLimit lineage rows, for a file under the root of a dump that
\* sits only on rows beyond the limit and that no other dump shadows; the
\* call returned the dump near the start commit and not the deep one.
C33_DeepDumpOutOfReach ==
    /\ visOut.op = "FindClosestDumps"
    /\ Len(visOut.lineage) > MaxTraversalLimit
    /\ \E d \in visIn.dumps :
          /\ HasPrefix(visOut.file, d.Root)
          /\ \A e \in visIn.dumps : e.ID # d.ID => e.Indexer # d.Indexer
          /\ \E n \in DOMAIN visOut.lineage : AttachedAt(d.ID, n)
          /\ \A n \in ConsideredRows : ~AttachedAt(d.ID, n)
          /\ d.ID \notin visOut.ids
          /\ d.ID \notin ReturnedIDs
    /\ ReturnedIDs # {}

(***************************************************************************)
(* Metadata store: properties                                              *)
(***************************************************************************)

\* The rows the last DeleteUploadByID call aimed at (one or none).
DeleteTarget == { u \in storeDb.last.before : u.ID = storeDb.last.id }

\* The commits of repository `repo` from which the recomputation can take
\* dumps: its tip commit and the ancestors of the tip.
TipAncestors(repo) ==
    Reachable({ <<c.commit, c.parent_commit>> :
                  c \in { x \in storeIn.commits : x.repository_id = repo } },
              {IF repo = 1 THEN storeIn.tip ELSE "c1"}, {})

\* C34 (deleting a tip-visible dump recomputes visibility atomically): after
\* DeleteUploadByID commits for a dump that was visible at tip, the upload is
\* gone, every dump d of its repository has visible_at_tip true exactly when d
\* is in the visible_ids computed from the tip commit (dumps of the tip's
\* ancestry that are still in the table), and the rows of other repositories
\* are unchanged; if a step fails, the table is what it was before the call;
\* for an unknown id the call returns found = false and changes nothing.
C34_DeleteRecomputesVisibility ==
    storeDb.last.op = "DeleteUploadByID" =>
        /\ \A u \in DeleteTarget :
              (storeDb.last.err = "" /\ u.VisibleAtTip) =>
                  /\ storeDb.last.found
                  /\ \A x \in storeDb.uploads : x.ID # u.ID
                  /\ \A d \in lsif_dumps(storeDb.uploads) :
                        d.RepositoryID = u.RepositoryID =>
                            (d.VisibleAtTip <=> d.ID \in storeDb.last.visible_ids)
                  /\ \A id \in storeDb.last.visible_ids :
                        \E d \in lsif_dumps(storeDb.uploads) :
                            /\ d.ID = id
                            /\ d.RepositoryID = u.RepositoryID
                            /\ d.Commit \in TipAncestors(u.RepositoryID)
                  /\ { x \in storeDb.uploads : x.RepositoryID # u.RepositoryID }
                        = { x \in storeDb.last.before : x.RepositoryID # u.RepositoryID }
        /\ storeDb.last.err # "" => storeDb.uploads = storeDb.last.before
        /\ DeleteTarget = {} => (~storeDb.last.found /\ storeDb.uploads = storeDb.last.before)

\* C34 witness: a dump that was visible at tip was deleted, the call
\* committed, and a dump of the same repository that the deleted one had
\* shadowed carries the flag now; the dump of the other repository is still
\* there.
C34_ShadowedDumpSurfaced ==
    /\ storeDb.last.op = "DeleteUploadByID"
    /\ storeDb.last.err = ""
    /\ storeDb.last.recomputed
    /\ \E u \in DeleteTarget :
          /\ u.VisibleAtTip
          /\ \E d \in storeDb.uploads, b \in storeDb.last.before :
                /\ d.ID = b.ID /\ d.RepositoryID = u.RepositoryID
                /\ d.VisibleAtTip /\ ~b.VisibleAtTip
          /\ \E x \in storeDb.uploads : x.RepositoryID # u.RepositoryID

\* The rows lsif_uploads gained during the last call.
NewRows == storeDb.uploads \ storeDb.last.before

\* C40 (Enqueue is all-or-nothing): if the callback passed to Enqueue returns
\* an error, no lsif_uploads row of that upload remains afterwards; the row is
\* present exactly when Enqueue returns without error.
C40_EnqueueAllOrNothing ==
    storeDb.last.op = "Enqueue" => (NewRows # {} <=> storeDb.last.err = "")

(***************************************************************************)
(* Dumps that vanish while a cursor names them                             *)
(***************************************************************************)

\* The dump ids of the request's store.
StoredDumpIDs == { d.ID : d \in driverIn.w.dumps }

\* The position after j in the batch of a run that the loop does not pass
\* over as the origin dump; 0 when there is none.
NextInBatch(run, j) ==
    LET later == { k \in (j + 1)..Len(run.batch) : run.batch[k] # run.origin }
    IN  IF later = {} THEN 0 ELSE CHOOSE k \in later : \A m \in later : k <= m

\* A run of a batch phase passed over the vanished dumps: every lookup of a
\* dump id that does not resolve is followed by the lookup of the next dump
\* of the batch, when there is one.
SkippedAndContinued(run) ==
    \A i \in DOMAIN run.calls :
        (run.calls[i].op = "GetDumpByID" /\ run.calls[i].dump \notin StoredDumpIDs) =>
            \A j \in DOMAIN run.batch :
                (run.batch[j] = run.calls[i].dump /\ NextInBatch(run, j) # 0) =>
                    /\ i < Len(run.calls)
                    /\ run.calls[i + 1].op = "GetDumpByID"
                    /\ run.calls[i + 1].dump = run.batch[NextInBatch(run, j)]

\* C35 (deleted dumps are skipped mid-cursor): when no store or bundle call
\* fails, a handler of the same-repo or remote-repo phase that meets a batch
\* dump id that no longer resolves skips it and goes on with the next dump of
\* the batch without an error; a same-dump handler whose origin dump no
\* longer resolves returns an empty page without an error, and the chain
\* continues with the definition-monikers cursor.
C35_VanishedDumpsSkipped ==
    (driverOut.op = "resolvePage" /\ driverIn.w.fail = {}) =>
        \A i \in DOMAIN driverOut.runs :
            LET run == driverOut.runs[i]
            IN  /\ (run.phase \in {"same-repo", "remote-repo"}
                      /\ \E j \in DOMAIN run.batch : run.batch[j] \notin StoredDumpIDs) =>
                        /\ run.err = ""
                        /\ SkippedAndContinued(run)
                /\ (run.phase = "same-dump" /\ run.origin \notin StoredDumpIDs) =>
                        /\ run.err = ""
                        /\ run.locations = <<>>
                        /\ run.hasNewCursor
                        /\ run.cursor.Phase = "definition-monikers"

\* C35 witness: a same-repo handler looked up a batch dump that no longer
\* resolves, went on to the next dump of the batch and returned locations of
\* it.
C35_SkippedToNextDump ==
    /\ driverOut.op = "resolvePage"
    /\ driverIn.w.fail = {}
    /\ \E i \in DOMAIN driverOut.runs :
          /\ driverOut.runs[i].phase = "same-repo"
          /\ driverOut.runs[i].err = ""
          /\ driverOut.runs[i].locations # <<>>
          /\ \E k \in DOMAIN driverOut.runs[i].calls :
                /\ driverOut.runs[i].calls[k].op = "GetDumpByID"
                /\ driverOut.runs[i].calls[k].dump \notin StoredDumpIDs

(***************************************************************************)
(* Location resolvers: dumps missing from the GetDumps result              *)
(***************************************************************************)

\* The locations handed to the resolver whose dump id the store still holds.
ResolvableInput ==
    LET Held(l) == \E d \in resolveIn.w.dumps : d.ID = l.DumpID
    IN  SelectSeq(resolveIn.locations, Held)

\* C36 (locations of vanished dumps are dropped): the multi-dump resolver
\* emits no location with an empty Dump record; a location whose dump id is
\* absent from the GetDumps result does not appear in the output, and the
\* other locations are returned in their input order.
C36_VanishedLocationsDropped ==
    resolveOut.op = "Server.resolveLocations" =>
        /\ \A i \in DOMAIN resolveOut.locations : resolveOut.locations[i].Dump # ZeroDump
        /\ Len(resolveOut.locations) = Len(ResolvableInput)
        /\ \A i \in DOMAIN resolveOut.locations :
              i \in DOMAIN ResolvableInput =>
                  /\ resolveOut.locations[i].Range = ResolvableInput[i].Range
                  /\ resolveOut.locations[i].Dump.ID = ResolvableInput[i].DumpID

(***************************************************************************)
(* Remote-repo candidates                                                  *)
(***************************************************************************)

\* The rows of the reference index for the queried package whose dump is a
\* dump of another repository than the query's and visible at its tip.
ForeignTipRows ==
    { id \in remoteIn.w.refIndex :
        \E d \in remoteIn.w.dumps :
            /\ d.ID = id
            /\ d.RepositoryID # PagerQuery.repositoryID
            /\ id \in remoteIn.w.tip }

\* The handler invocations of the remote-repo phase that fetched a batch.
RemoteFetches ==
    { i \in DOMAIN remoteOut.runs :
        /\ remoteOut.runs[i].in.Phase = "remote-repo"
        /\ remoteOut.runs[i].in.DumpIDs = <<>>
        /\ remoteOut.runs[i].err = "" }

\* What getPackageReferences returned to the i-th invocation:
\* (refs, totalCount, newOffset).
FetchOf(i) ==
    getPackageReferences(remoteIn.w, PagerQuery.repositoryID,
        remoteOut.runs[i].in.Scheme, remoteOut.runs[i].in.Name,
        remoteOut.runs[i].in.Version, remoteOut.runs[i].in.Identifier,
        remoteIn.remoteDumpLimit, remoteOut.runs[i].in.SkipDumpsWhenBatching).r

\* C37 (remote-repo candidates are foreign and tip-visible): every dump id
\* that a fetch places in a remote-repo batch belongs to a repository other
\* than the query's and is visible at tip, and the total that
\* getPackageReferences computes for the progression through the batches is
\* the number of reference rows satisfying the same predicate.
C37_ForeignTipCandidates ==
    \A i \in RemoteFetches :
        /\ \A j \in DOMAIN remoteOut.runs[i].batch :
              remoteOut.runs[i].batch[j] \in ForeignTipRows
        /\ \A j \in DOMAIN FetchOf(i)[1] : FetchOf(i)[1][j].DumpID \in ForeignTipRows
        /\ FetchOf(i)[2] = Cardinality(ForeignTipRows)

\* C37 witness: a remote-repo fetch filled a batch while the reference index
\* also named a dump of the query's repository and a dump of another
\* repository that is not visible at tip.
C37_CandidatesFiltered ==
    \E i \in RemoteFetches :
        /\ remoteOut.runs[i].batch # <<>>
        /\ \E id \in remoteIn.w.refIndex : id \notin remoteIn.w.tip /\ id # 1
        /\ \E id \in remoteIn.w.refIndex, d \in remoteIn.w.dumps :
              d.ID = id /\ d.RepositoryID = PagerQuery.repositoryID

(***************************************************************************)
(* DatabaseCache: re-opening and reference counts                          *)
(***************************************************************************)

\* Goroutine g has just been handed an entry by WithDatabase.
HandedEntry(g) ==
    /\ dbCache.procs[g].pc = "idle"
    /\ dbCache'.procs[g].pc = "handler"

\* Two running handlers hold different entries of the same key: the older
\* entry was evicted while held and the key was opened again.
ReopenedWhileHeld(g, h) ==
    /\ g # h
    /\ dbCache.procs[g].pc = "handler"
    /\ dbCache.procs[h].pc = "handler"
    /\ dbCache.procs[g].entry # dbCache.procs[h].entry
    /\ dbCache.entries[dbCache.procs[g].entry].key = dbCache.entries[dbCache.procs[h].entry].key

\* C38 (re-opening after eviction): a WithDatabase call for a key whose entry
\* was evicted is never handed the evicted entry (it opens a fresh Database,
\* distinct from the one a handler may still hold), and while the handler of
\* the evicted Database and the handler of the fresh one both run, Close has
\* been invoked on neither.
C38_ReopenedAfterEviction ==
    /\ [][\A g \in DbGoroutines :
            HandedEntry(g) =>
                \/ dbCache'.procs[g].entry \notin DOMAIN dbCache.entries
                \/ ~dbCache.entries[dbCache'.procs[g].entry].once]_vars
    /\ [](\A g, h \in DOMAIN dbCache.procs :
            ReopenedWhileHeld(g, h) =>
                /\ dbCache.entries[dbCache.procs[g].entry].closes = 0
                /\ dbCache.entries[dbCache.procs[h].entry].closes = 0)

\* C39 (balanced reference counting): the user count of an entry is the
\* number of handlers that were handed the entry and have not returned (each
\* call adds one before its handler runs and takes one away after it), so the
\* count never drops below zero.
C39_BalancedReferenceCount ==
    \A e \in DOMAIN dbCache.entries :
        /\ dbCache.entries[e].wg = Cardinality(Holders(e))
        /\ dbCache.entries[e].wg >= 0

====
